---- MODULE Spec2Model ----
(***************************************************************************)
(* A model of glean (src/glean/cmd.py): the boot-time pipeline that reads  *)
(* the provider's network payload from the config-drive, resolves it into  *)
(* per-interface records, probes the kernel's network devices, renders one *)
(* OS dialect's configuration files and writes them.                       *)
(*                                                                         *)
(* Python dicts are functions whose domain is the set of keys present, so  *)
(* that "key in d", d.get, d.pop and d.update are modelled by what they    *)
(* do.  Python lists are sequences.  File contents are sequences of lines, *)
(* a line being the sequence of its words.                                 *)
(***************************************************************************)
EXTENDS Integers, Sequences, FiniteSets, TLC

VARIABLES
    pc,              \* position of the run in write_network_info_from_config_drive
    args,            \* the parsed command line: distro, noop, interface, skip_dns
    drive,           \* the config-drive: the three payload sources
    network_info,    \* what get_network_info returned
    interfaces,      \* what get_config_drive_interfaces returned
    if_dict,         \* get_sys_interfaces: device -> MAC of the candidates
    if_up_list,      \* get_sys_interfaces: candidates seen up while polling
    x,               \* get_sys_interfaces: the polling round
    seen_up,         \* devices for which some carrier read returned '1'
    seen_permanent,  \* get_sys_interfaces: devices whose addr_assign_type read '0'
    sys_interfaces,  \* what get_sys_interfaces returned: MAC -> device
    fs,              \* the host's files: path -> content
    fs_faults,       \* whether opening a file for writing may fail on this host
    files_to_write,  \* the write set: path -> content
    files,           \* finish_files: the sorted paths
    k,               \* finish_files: index of the current file in files
    retries,         \* finish_files: the retry counter of the current file
    oplog,           \* the host operations performed, in order
    err,             \* the exception that ended the run, or "none"
    lock,            \* /tmp/glean.lock: the set of the invocation that holds it
    at               \* main: where each invocation of the host is

vars == <<pc, args, drive, network_info, interfaces, if_dict, if_up_list, x,
          seen_up, seen_permanent, sys_interfaces, fs, fs_faults,
          files_to_write, files, k, retries, oplog, err, lock, at>>

\* One invocation, inside the with block of main (cmd.py 1475-1481)
InsideLock ==
    /\ lock = {1}
    /\ at = [i \in {1} |-> "with"]

----------------------------------------------------------------------------
(* Python dict and list operations *)

EmptyDict == [key \in {} |-> key]

Has(d, key) == key \in DOMAIN d

Get(d, key, default) == IF key \in DOMAIN d THEN d[key] ELSE default

Put(d, key, v) == [j \in (DOMAIN d) \cup {key} |-> IF j = key THEN v ELSE d[j]]

Pop(d, key) == [j \in (DOMAIN d) \ {key} |-> d[j]]

Update(d, n) ==
    [j \in (DOMAIN d) \cup (DOMAIN n) |-> IF j \in DOMAIN n THEN n[j] ELSE d[j]]

Range(s) == {s[i] : i \in DOMAIN s}

Unbound == "<unbound>"

----------------------------------------------------------------------------
(* The universe of the model: MAC addresses, link and network ids *)

MAC1 == "fa:16:3e:00:00:01"
MAC2 == "fa:16:3e:00:00:02"
MAC2U == "FA:16:3E:00:00:02"
MAC3 == "fa:16:3e:00:00:03"
MACV == "fa:16:3e:00:01:00"

\* A lower() that keeps the case
lowerKeepsCase(s) == s

\* str.lower() on the MAC addresses of the universe
lower(s) == IF s = MAC2U THEN MAC2 ELSE s

----------------------------------------------------------------------------
(* get_network_info *)

\* A source file of the config-drive: whether it exists, and its JSON.
Source(exists, json) == [exists |-> exists, json |-> json]

NoSource == Source(FALSE, EmptyDict)

get_network_info(d) ==
    LET network_info0 == IF d.info.exists THEN d.info.json ELSE EmptyDict
    IN  IF d.data.exists THEN d.data.json
        ELSE IF d.vendor.exists
             THEN IF Has(d.vendor.json, "network_info")
                  THEN d.vendor.json.network_info
                  ELSE network_info0
             ELSE network_info0

----------------------------------------------------------------------------
(* get_config_drive_interfaces *)

Bucket(link) ==
    IF link.type = "vlan" THEN "vlans"
    ELSE IF link.type = "bond" THEN "bonds" ELSE "phys"

\* The ids of one bucket, in insertion order.
BucketIds(links, b) ==
    LET sel == SelectSeq(links, LAMBDA l : Bucket(l) = b)
    IN  [i \in 1..Len(sel) |-> sel[i].id]

\* networks[network['link']] = network: the link ids that carry a network.
NetworkLinks(net) == {net.networks[i].link : i \in 1..Len(net.networks)}

\* for link in vlans.values(): lines 991-1002.  st.L is the store of link
\* objects by id, st.vlan_link the local variable (a link id, or Unbound).
RECURSIVE vlans_loop(_, _, _, _, _)
vlans_loop(ids, i, st, phys, bonds) ==
    IF i > Len(ids) \/ st.err # "none" THEN st
    ELSE
      LET link == st.L[ids[i]]
          parent == link.vlan_link
          inPhys == parent \in phys
          inBonds == (~inPhys) /\ parent \in bonds
          vlan_link == IF inPhys \/ inBonds THEN parent ELSE st.vlan_link
          bond_links == IF inBonds THEN st.L[parent].bond_links ELSE <<>>
          missing == \E j \in 1..Len(bond_links) : bond_links[j] \notin phys
      IN  IF missing THEN [st EXCEPT !.err = "KeyError"]
          ELSE IF vlan_link = Unbound
          THEN [st EXCEPT !.err = "UnboundLocalError"]
          ELSE
            LET raw_macs ==
                    IF inPhys
                    THEN <<lower(st.L[parent].ethernet_mac_address)>>
                    ELSE [j \in 1..Len(bond_links) |->
                            lower(st.L[bond_links[j]].ethernet_mac_address)]
                l1 == IF inPhys \/ inBonds
                      THEN Put(link, "raw_macs", raw_macs) ELSE link
                mac == lower(Get(l1, "vlan_mac_address",
                                 st.L[vlan_link].ethernet_mac_address))
                l2 == Put(Pop(l1, "vlan_mac_address"), "mac_address", mac)
            IN  vlans_loop(ids, i + 1,
                           [st EXCEPT !.L[ids[i]] = l2,
                                      !.vlan_link = vlan_link],
                           phys, bonds)

\* for phy in link['bond_links']: lines 1006-1010, the slaves' back-references
RECURSIVE set_bond_master(_, _, _, _)
set_bond_master(L, bond_links, j, master) ==
    IF j > Len(bond_links) THEN L
    ELSE set_bond_master(
             [L EXCEPT ![bond_links[j]] = Put(@, "bond_master", master)],
             bond_links, j + 1, master)

\* for link in bonds.values(): lines 1004-1015.  st.refs are the link ids whose
\* objects were put into interfaces by reference.
RECURSIVE bonds_loop(_, _, _, _, _)
bonds_loop(ids, i, st, phys, netlinks) ==
    IF i > Len(ids) \/ st.err # "none" THEN st
    ELSE
      LET link == st.L[ids[i]]
          bond_links == link.bond_links
          missing == \E j \in 1..Len(bond_links) : bond_links[j] \notin phys
      IN  IF missing THEN [st EXCEPT !.err = "KeyError"]
          ELSE
            LET L1 == set_bond_master(st.L, bond_links, 1, link.id)
                phy_macs == [j \in 1..Len(bond_links) |->
                               lower(L1[bond_links[j]].ethernet_mac_address)]
                l1 == Put(link, "raw_macs", phy_macs)
                l2 == Put(Pop(l1, "ethernet_mac_address"), "mac_address",
                          lower(l1.ethernet_mac_address))
                unattached == link.id \notin netlinks
                l3 == IF unattached THEN Put(l2, "type", "manual") ELSE l2
            IN  bonds_loop(ids, i + 1,
                           [st EXCEPT !.L = [L1 EXCEPT ![ids[i]] = l3],
                                      !.refs = IF unattached
                                               THEN @ \cup {ids[i]} ELSE @],
                           phys, netlinks)

\* for link in phys.values(): lines 1017-1021
RECURSIVE phys_loop(_, _, _, _)
phys_loop(ids, i, st, netlinks) ==
    IF i > Len(ids) THEN st
    ELSE
      LET link == st.L[ids[i]]
          l2 == Put(Pop(link, "ethernet_mac_address"), "mac_address",
                    lower(link.ethernet_mac_address))
          unattached == link.id \notin netlinks
          l3 == IF unattached THEN Put(l2, "type", "manual") ELSE l2
      IN  phys_loop(ids, i + 1,
                    [st EXCEPT !.L[ids[i]] = l3,
                               !.refs = IF unattached
                                        THEN @ \cup {ids[i]} ELSE @],
                    netlinks)

\* for network in net['networks']: lines 1023-1033.  st.copies are the
\* deep copies put into interfaces, by network id.
RECURSIVE networks_loop(_, _, _)
networks_loop(networks, i, st) ==
    IF i > Len(networks) THEN st
    ELSE
      LET network == networks[i]
      IN  IF network.link \notin DOMAIN st.L
          THEN networks_loop(networks, i + 1, st)
          ELSE
            LET link == Update(st.L[network.link], network)
            IN  networks_loop(networks, i + 1,
                              [st EXCEPT !.L[network.link] = link,
                                         !.copies = Put(@, network.id, link)])

\* The result: err is the exception raised ("none": returned normally).
get_config_drive_interfaces(net) ==
    IF ~Has(net, "networks") \/ ~Has(net, "links")
    THEN [err |-> "none", interfaces |-> EmptyDict]
    ELSE
      LET L0 == [id \in {net.links[i].id : i \in 1..Len(net.links)} |->
                   (CHOOSE l \in Range(net.links) : l.id = id)]
          vlans == BucketIds(net.links, "vlans")
          bonds == BucketIds(net.links, "bonds")
          phys == BucketIds(net.links, "phys")
          netlinks == NetworkLinks(net)
          st0 == [L |-> L0, vlan_link |-> Unbound, err |-> "none",
                  refs |-> {}, copies |-> EmptyDict]
          st1 == vlans_loop(vlans, 1, st0, Range(phys), Range(bonds))
          st2 == bonds_loop(bonds, 1, st1, Range(phys), netlinks)
          st3 == phys_loop(phys, 1, st2, netlinks)
          st4 == networks_loop(net.networks, 1, st3)
      IN  IF st2.err # "none"
          THEN [err |-> st2.err, interfaces |-> EmptyDict]
          ELSE [err |-> "none",
                interfaces |->
                  [key \in st4.refs \cup DOMAIN st4.copies |->
                     IF key \in DOMAIN st4.copies
                     THEN st4.copies[key] ELSE st4.L[key]]]

----------------------------------------------------------------------------
(* Orders.  Python sorts strings by code point; the model sorts by the      *)
(* position in these sequences, which list the strings of the universe in   *)
(* that order.                                                              *)

IdOrder == <<"bond0", "net0", "net1", "net2", "p1", "p2",
             "vlan1", "vlan2", "vlanx">>

DeviceOrder == <<"eth0", "eth1", "lo">>

\* sorted(interfaces.items(), key=lambda x: x[1]['id']): the keys, by id
SortedById(intfs) ==
    LET ids == SelectSeq(IdOrder,
                         LAMBDA id : \E key \in DOMAIN intfs : intfs[key].id = id)
    IN  [i \in 1..Len(ids) |-> CHOOSE key \in DOMAIN intfs : intfs[key].id = ids[i]]

\* sorted(sys_interfaces.items(), key=lambda x: x[1]): the MACs, by device name
SortedByName(sys) ==
    LET names == SelectSeq(DeviceOrder,
                           LAMBDA n : \E mac \in DOMAIN sys : sys[mac] = n)
    IN  [i \in 1..Len(names) |-> CHOOSE mac \in DOMAIN sys : sys[mac] = names[i]]

----------------------------------------------------------------------------
(* utils.ipv4_netmask_length and utils.ipv6_netmask_length, on the netmasks *)
(* of the universe; the result as the text that str.format makes of it      *)

ipv4_netmask_length(netmask) ==
    CASE netmask = "255.255.255.0" -> "24"
      [] netmask = "255.255.0.0" -> "16"
      [] netmask = "0.0.0.0" -> "0"

ipv6_netmask_length(netmask) ==
    CASE netmask = "ffff:ffff:ffff:ffff::" -> "64"
      [] netmask = "::" -> "0"

----------------------------------------------------------------------------
(* Matching a declared interface against the discovered devices *)

\* raw_macs = interface.get('raw_macs', [interface['mac_address']])
RawMacs(interface) == Get(interface, "raw_macs", <<interface.mac_address>>)

\* set(sys_interfaces).intersection(set(raw_macs))
Matched(interface, sys) == (DOMAIN sys) \cap Range(RawMacs(interface)) # {}

\* [sys_interfaces[mac] for mac in interface['raw_macs']] raises KeyError
\* when a raw MAC was not discovered.
SlavesMissing(interface, sys) ==
    \E j \in 1..Len(interface.raw_macs) : interface.raw_macs[j] \notin DOMAIN sys

SlaveDevices(interface, sys) ==
    [j \in 1..Len(interface.raw_macs) |-> sys[interface.raw_macs[j]]]

\* The device name of a declared interface in the Debian and Red Hat
\* renderers (cmd.py 785-800 and 265-279); vlan_raw_device is "None" when
\* the interface is no vlan.
VlanRawDevice(interface, sys) ==
    IF ~Has(interface, "vlan_id") THEN "None"
    ELSE IF Len(RawMacs(interface)) = 1
         THEN Get(sys, RawMacs(interface)[1], "None")
         ELSE interface.vlan_link

NameMissing(interface, sys) ==
    /\ ~Has(interface, "vlan_id")
    /\ ~Has(interface, "bond_mode")
    /\ interface.mac_address \notin DOMAIN sys

InterfaceName(iname, interface, sys) ==
    IF Has(interface, "vlan_id")
    THEN VlanRawDevice(interface, sys) \o "." \o interface.vlan_id
    ELSE IF Has(interface, "bond_mode")
         THEN Get(interface, "link", iname)
         ELSE sys[interface.mac_address]

----------------------------------------------------------------------------
(* write_debian_interfaces *)

eni_path == "/etc/network/interfaces"

DebianPath(name) == "/etc/network/interfaces.d/" \o name \o ".cfg"

\* _exists_debian_interface
exists_debian_interface(name, hostfs) == DebianPath(name) \in DOMAIN hostfs

\* The bond block of a stanza (cmd.py 814-830, 844-860, 887-903)
DebianBondLines(interface, interface_name, sys) ==
    IF ~Has(interface, "bond_mode") THEN <<>>
    ELSE
      (IF interface.mac_address # ""
       THEN << <<"hwaddress", interface.mac_address>> >> ELSE <<>>)
      \o << <<"bond-mode", interface.bond_mode>>,
            <<"bond-miimon", Get(interface, "bond_miimon", "0")>>,
            <<"bond-lacp-rate", Get(interface, "bond_lacp_rate", "slow")>>,
            <<"bond-xmit_hash_policy",
              Get(interface, "bond_xmit_hash_policy", "layer2")>>,
            <<"bond-slaves", "none">>,
            <<"post-up", "ifenslave", interface_name>>
                \o SlaveDevices(interface, sys),
            <<"pre-down", "ifenslave", "-d", interface_name>>
                \o SlaveDevices(interface, sys) >>

IsDefaultRoute(route) ==
    \/ (route.network = "0.0.0.0" /\ route.netmask = "0.0.0.0")
    \/ (route.network = "::" /\ route.netmask = "::")

\* A stanza whose default route is written as any other route
DebianRouteLinesNoGateway(interface, interface_name, route) ==
    << <<"up", "route", "add", "-net", route.network, "netmask",
         route.netmask, "gw", route.gateway, "||", "true">>,
       <<"down", "route", "del", "-net", route.network, "netmask",
         route.netmask, "gw", route.gateway, "||", "true">> >>

\* One route of a static stanza (cmd.py 912-937)
DebianRouteLines(interface, interface_name, route) ==
    IF IsDefaultRoute(route)
    THEN << <<"gateway", route.gateway>> >>
    ELSE IF interface.type = "ipv4"
         THEN << <<"up", "route", "add", "-net", route.network, "netmask",
                   route.netmask, "gw", route.gateway, "||", "true">>,
                 <<"down", "route", "del", "-net", route.network, "netmask",
                   route.netmask, "gw", route.gateway, "||", "true">> >>
         ELSE << <<"up", "ip", "-6", "route", "add",
                   route.network \o "/" \o ipv6_netmask_length(route.netmask),
                   "via", route.gateway, "dev", interface_name, "||", "true">>,
                 <<"down", "ip", "-6", "route", "del",
                   route.network \o "/" \o ipv6_netmask_length(route.netmask),
                   "via", route.gateway, "dev", interface_name, "||", "true">> >>

RECURSIVE DebianRoutes(_, _, _, _)
DebianRoutes(interface, interface_name, routes, j) ==
    IF j > Len(routes) THEN <<>>
    ELSE DebianRouteLines(interface, interface_name, routes[j])
         \o DebianRoutes(interface, interface_name, routes, j + 1)

\* The stanza of one declared interface, without its "auto" header; <<>> for
\* a type the dialect does not know (cmd.py 807-937).
DebianStanza(interface, interface_name, sys) ==
    LET vlan_raw_device == VlanRawDevice(interface, sys)
        bond_master == IF Has(interface, "bond_master")
                       THEN << <<"bond-master", interface.bond_master>> >>
                       ELSE <<>>
    IN  IF interface.type = "ipv4_dhcp"
        THEN << <<"iface", interface_name, "inet", "dhcp">> >>
             \o (IF vlan_raw_device # "None"
                 THEN << <<"vlan-raw-device", vlan_raw_device>>,
                         <<"hw-mac-address", interface.mac_address>> >>
                 ELSE <<>>)
             \o DebianBondLines(interface, interface_name, sys)
        ELSE IF interface.type = "manual"
        THEN << <<"iface", interface_name, "inet", "manual">> >>
             \o bond_master
             \o DebianBondLines(interface, interface_name, sys)
        ELSE IF interface.type \notin {"ipv4", "ipv6"} THEN <<>>
        ELSE << <<"iface", interface_name,
                  IF interface.type = "ipv6" THEN "inet6" ELSE "inet",
                  "static">> >>
             \o (IF vlan_raw_device # "None"
                 THEN << <<"vlan-raw-device", vlan_raw_device>> >> ELSE <<>>)
             \o bond_master
             \o DebianBondLines(interface, interface_name, sys)
             \o << <<"address", interface.ip_address>>,
                   <<"netmask", IF interface.type = "ipv4"
                                THEN interface.netmask
                                ELSE ipv6_netmask_length(interface.netmask)>> >>
             \o DebianRoutes(interface, interface_name, interface.routes, 1)

\* Whether rendering the stanza raises KeyError
DebianStanzaFails(interface, sys) ==
    /\ interface.type \in {"ipv4_dhcp", "manual", "ipv4", "ipv6"}
    /\ Has(interface, "bond_mode")
    /\ SlavesMissing(interface, sys)

\* for iname, interface in sorted(interfaces.items(), ...): cmd.py 776-943.
\* st is [err, files].
RECURSIVE debian_declared(_, _, _, _, _, _)
debian_declared(keys, i, intfs, sys, hostfs, st) ==
    IF i > Len(keys) \/ st.err # "none" THEN st
    ELSE
      LET interface == intfs[keys[i]]
      IN  IF ~Matched(interface, sys)
          THEN debian_declared(keys, i + 1, intfs, sys, hostfs, st)
          ELSE IF NameMissing(interface, sys)
          THEN [st EXCEPT !.err = "KeyError"]
          ELSE
            LET interface_name == InterfaceName(keys[i], interface, sys)
                iface_path == DebianPath(interface_name)
                result == DebianStanza(interface, interface_name, sys)
            IN  IF exists_debian_interface(interface_name, hostfs)
                THEN debian_declared(keys, i + 1, intfs, sys, hostfs, st)
                ELSE IF DebianStanzaFails(interface, sys)
                THEN [st EXCEPT !.err = "KeyError"]
                ELSE IF result = <<>>
                THEN debian_declared(keys, i + 1, intfs, sys, hostfs, st)
                ELSE debian_declared(keys, i + 1, intfs, sys, hostfs,
                       [st EXCEPT !.files =
                          IF iface_path \in DOMAIN st.files
                          THEN Put(st.files, iface_path,
                                   st.files[iface_path] \o result)
                          ELSE Put(st.files, iface_path,
                                   << <<"auto", interface_name>> >> \o result)])

\* The MACs a device is compared with before it gets the DHCP fallback
\* (cmd.py 950-953 and 306-309).  last is the interface the loop over the
\* declared interfaces ended on: the comprehension's condition reads it.
ConfiguredMacs(intfs, last) ==
    {intfs[key].mac_address : key \in DOMAIN intfs}
    \cup {Get(intfs[key], "link_mac", "None") :
            key \in {kk \in DOMAIN intfs : Has(last, "vlan_id")}}

\* for mac, iname in sorted(sys_interfaces.items(), ...): cmd.py 945-958
RECURSIVE debian_fallback(_, _, _, _, _, _)
debian_fallback(macs, i, intfs, sys, hostfs, files_acc) ==
    IF i > Len(macs) THEN files_acc
    ELSE
      LET mac == macs[i]
          iname == sys[mac]
          keys == SortedById(intfs)
          last == IF Len(keys) = 0 THEN EmptyDict ELSE intfs[keys[Len(keys)]]
      IN  IF exists_debian_interface(iname, hostfs)
             \/ mac \in ConfiguredMacs(intfs, last)
          THEN debian_fallback(macs, i + 1, intfs, sys, hostfs, files_acc)
          ELSE debian_fallback(macs, i + 1, intfs, sys, hostfs,
                 Put(files_acc, DebianPath(iname),
                     << <<"auto", iname>>,
                        <<"iface", iname, "inet", "dhcp">> >>))

\* The write set, or the exception: [err, files]
write_debian_interfaces(intfs, sys, hostfs) ==
    LET st0 == [err |-> "none",
                files |-> Put(EmptyDict, eni_path,
                              << <<"auto", "lo">>,
                                 <<"iface", "lo", "inet", "loopback">>,
                                 <<"source", "/etc/network/interfaces.d/*.cfg">> >>)]
        st1 == debian_declared(SortedById(intfs), 1, intfs, sys, hostfs, st0)
    IN  IF st1.err # "none" THEN st1
        ELSE [st1 EXCEPT !.files =
                debian_fallback(SortedByName(sys), 1, intfs, sys, hostfs, @)]

----------------------------------------------------------------------------
(* write_redhat_interfaces: the Red Hat and SUSE sysconfig dialects *)

\* _is_suse: 'suse' in distro
is_suse(distro) == distro \in {"suse", "opensuse", "opensuse-leap"}

\* _network_files
IfcfgPath(name, distro) ==
    (IF is_suse(distro) THEN "/etc/sysconfig/network/ifcfg"
     ELSE "/etc/sysconfig/network-scripts/ifcfg") \o "-" \o name

RoutePath(name, distro) ==
    (IF is_suse(distro) THEN "/etc/sysconfig/network/ifroute"
     ELSE "/etc/sysconfig/network-scripts/route") \o "-" \o name

\* _exists_rh_interface
exists_rh_interface(name, distro, hostfs) ==
    IfcfgPath(name, distro) \in DOMAIN hostfs

\* str(i) for the indices the renderers format
Str(i) == CASE i = 0 -> "0" [] i = 1 -> "1" [] i = 2 -> "2" [] i = 3 -> "3"
            [] OTHER -> "n"

\* _network_config(distro)[kind].format(...), kind in static, dhcp, none
network_config(distro, kind, bootproto, name, interface) ==
    LET header == IF is_suse(distro)
                  THEN << <<"# Automatically generated, do not edit">>,
                          <<"BOOTPROTO=", bootproto>>,
                          <<"LLADDR=", interface.mac_address>> >>
                  ELSE << <<"# Automatically generated, do not edit">>,
                          <<"DEVICE=", name>>,
                          <<"BOOTPROTO=", bootproto>>,
                          <<"HWADDR=", interface.mac_address>> >>
        address == << <<"IPADDR=", interface.ip_address>>,
                      <<"NETMASK=", interface.netmask>> >>
    IN  IF is_suse(distro)
        THEN header \o (IF kind = "static" THEN address ELSE <<>>)
                    \o << <<"STARTMODE=", "auto">> >>
        ELSE header \o (IF kind = "static" THEN address ELSE <<>>)
                    \o << <<"ONBOOT=", "yes">>, <<"NM_CONTROLLED=", "no">> >>
                    \o (IF kind = "static" THEN <<>>
                        ELSE << <<"TYPE=", "Ethernet">> >>)

\* _set_rh_vlan.  name.split('.')[0] is the vlan's raw device: no device
\* name of the universe holds a dot.
set_rh_vlan(raw_device, interface, distro) ==
    IF ~Has(interface, "vlan_id") THEN <<>>
    ELSE IF is_suse(distro)
         THEN << <<"VLAN_ID=", interface.vlan_id>>,
                 <<"ETHERDEVICE=", raw_device>> >>
         ELSE << <<"VLAN=", "yes">> >>

\* results.replace("=auto", "=hotplug")
ReplaceAuto(results) ==
    [i \in 1..Len(results) |->
       IF results[i] = <<"STARTMODE=", "auto">>
       THEN <<"STARTMODE=", "hotplug">> ELSE results[i]]

\* _set_rh_bonding
set_rh_bonding(interface, distro, results) ==
    IF ~Has(interface, "bond_slaves") /\ ~Has(interface, "bond_master")
    THEN results
    ELSE IF is_suse(distro)
    THEN IF Has(interface, "bond_slaves")
         THEN results \o << <<"BONDING_MASTER=", "yes">> >>
              \o [j \in 1..Len(interface.bond_slaves) |->
                    <<"BONDING_SLAVE_" \o Str(j - 1) \o "=",
                      interface.bond_slaves[j]>>]
         ELSE ReplaceAuto(results)
    ELSE IF Has(interface, "bond_slaves") THEN results
         ELSE results \o << <<"SLAVE=", "yes">>,
                            <<"MASTER=", interface.bond_master>> >>

\* The routes list of _write_rh_interface (cmd.py 192-205)
RECURSIVE RhRoutes(_, _, _)
RhRoutes(routes, j, distro) ==
    IF j > Len(routes) THEN <<>>
    ELSE LET route == routes[j]
             isdefault == route.network = "0.0.0.0" /\ route.netmask = "0.0.0.0"
         IN  (IF isdefault
              THEN IF ~is_suse(distro) THEN <<>>
                   ELSE << [net |-> "default", mask |-> "", gw |-> route.gateway] >>
              ELSE << [net |-> route.network, mask |-> route.netmask,
                       gw |-> route.gateway] >>)
             \o RhRoutes(routes, j + 1, distro)

\* The DEFROUTE lines of _write_rh_interface (cmd.py 194-197)
RECURSIVE RhDefroute(_, _, _)
RhDefroute(routes, j, distro) ==
    IF j > Len(routes) THEN <<>>
    ELSE (IF routes[j].network = "0.0.0.0" /\ routes[j].netmask = "0.0.0.0"
             /\ ~is_suse(distro)
          THEN << <<"DEFROUTE=", "yes">>, <<"GATEWAY=", routes[j].gateway>> >>
          ELSE <<>>)
         \o RhDefroute(routes, j + 1, distro)

\* route_content (cmd.py 207-218)
RECURSIVE RhRouteContent(_, _, _)
RhRouteContent(routes, j, distro) ==
    IF j > Len(routes) THEN <<>>
    ELSE (IF ~is_suse(distro)
          THEN << <<"ADDRESS" \o Str(j - 1) \o "=", routes[j].net>>,
                  <<"NETMASK" \o Str(j - 1) \o "=", routes[j].mask>>,
                  <<"GATEWAY" \o Str(j - 1) \o "=", routes[j].gw>> >>
          ELSE IF routes[j].mask = ""
               THEN << <<routes[j].net, routes[j].gw>> >>
               ELSE << <<routes[j].net, routes[j].gw, routes[j].mask>> >>)
         \o RhRouteContent(routes, j + 1, distro)

\* _write_rh_interface: the files of a static interface
write_rh_interface(name, raw_device, interface, distro) ==
    LET results == set_rh_bonding(interface, distro,
                       network_config(distro, "static", "static", name, interface)
                       \o set_rh_vlan(raw_device, interface, distro))
                   \o RhDefroute(interface.routes, 1, distro)
        routes == RhRoutes(interface.routes, 1, distro)
        ifcfg == Put(EmptyDict, IfcfgPath(name, distro), results)
    IN  IF routes # <<>>
        THEN Put(ifcfg, RoutePath(name, distro), RhRouteContent(routes, 1, distro))
        ELSE ifcfg

\* _write_rh_dhcp
write_rh_dhcp(name, raw_device, interface, distro) ==
    Put(EmptyDict, IfcfgPath(name, distro),
        set_rh_bonding(interface, distro,
            network_config(distro, "dhcp", "dhcp", name, interface)
            \o set_rh_vlan(raw_device, interface, distro)))

\* _write_rh_manual
write_rh_manual(name, raw_device, interface, distro) ==
    Put(EmptyDict, IfcfgPath(name, distro),
        set_rh_bonding(interface, distro,
            network_config(distro, "none", "none", name, interface)
            \o set_rh_vlan(raw_device, interface, distro)))

\* A bond record that keeps bond_links and gets the slaves appended to the
\* bond_slaves it has
KeepBondSlavesAppends(interface, sys) ==
    IF Has(interface, "bond_links")
    THEN Put(interface, "bond_slaves",
             Get(interface, "bond_slaves", <<>>) \o SlaveDevices(interface, sys))
    ELSE interface

\* if 'bond_links' in interface: the record gets bond_slaves and loses
\* bond_links (cmd.py 284-292)
KeepBondSlaves(interface, sys) ==
    IF Has(interface, "bond_links")
    THEN Pop(Put(interface, "bond_slaves", SlaveDevices(interface, sys)),
             "bond_links")
    ELSE interface

\* for iname, interface in sorted(interfaces.items(), ...): cmd.py 254-299.
\* st is [err, files, intfs]: the loop changes the interface records.
RECURSIVE redhat_declared(_, _, _, _, _)
redhat_declared(keys, i, sys, distro, st) ==
    IF i > Len(keys) \/ st.err # "none" THEN st
    ELSE
      LET interface == st.intfs[keys[i]]
      IN  IF interface.type = "ipv6" \/ ~Matched(interface, sys)
          THEN redhat_declared(keys, i + 1, sys, distro, st)
          ELSE IF NameMissing(interface, sys)
                  \/ (Has(interface, "bond_links") /\ SlavesMissing(interface, sys))
          THEN [st EXCEPT !.err = "KeyError"]
          ELSE
            LET interface_name == InterfaceName(keys[i], interface, sys)
                raw_device == VlanRawDevice(interface, sys)
                intf2 == KeepBondSlaves(interface, sys)
                written ==
                    IF intf2.type = "ipv4"
                    THEN write_rh_interface(interface_name, raw_device, intf2, distro)
                    ELSE IF intf2.type = "ipv4_dhcp"
                    THEN write_rh_dhcp(interface_name, raw_device, intf2, distro)
                    ELSE IF intf2.type = "manual"
                    THEN write_rh_manual(interface_name, raw_device, intf2, distro)
                    ELSE EmptyDict
            IN  redhat_declared(keys, i + 1, sys, distro,
                    [st EXCEPT !.intfs[keys[i]] = intf2,
                               !.files = Update(@, written)])

\* for mac, iname in sorted(sys_interfaces.items(), ...): cmd.py 300-314
RECURSIVE redhat_fallback(_, _, _, _, _, _, _)
redhat_fallback(macs, i, intfs, sys, distro, hostfs, files_acc) ==
    IF i > Len(macs) THEN files_acc
    ELSE
      LET mac == macs[i]
          iname == sys[mac]
          keys == SortedById(intfs)
          last == IF Len(keys) = 0 THEN EmptyDict ELSE intfs[keys[Len(keys)]]
      IN  IF exists_rh_interface(iname, distro, hostfs)
             \/ mac \in ConfiguredMacs(intfs, last)
          THEN redhat_fallback(macs, i + 1, intfs, sys, distro, hostfs, files_acc)
          ELSE redhat_fallback(macs, i + 1, intfs, sys, distro, hostfs,
                 Update(files_acc,
                        write_rh_dhcp(iname, "None", [mac_address |-> mac], distro)))

\* The write set, or the exception: [err, files, intfs]
write_redhat_interfaces(intfs, sys, distro, hostfs) ==
    LET st1 == redhat_declared(SortedById(intfs), 1, sys, distro,
                   [err |-> "none", files |-> EmptyDict, intfs |-> intfs])
    IN  IF st1.err # "none" THEN st1
        ELSE [st1 EXCEPT !.files =
                redhat_fallback(SortedByName(sys), 1, st1.intfs, sys, distro,
                                hostfs, @)]

----------------------------------------------------------------------------
(* The grouping of the declared interfaces by raw MACs, shared by the       *)
(* Gentoo and networkd renderers (cmd.py 709-733 and 503-525)               *)

\* gen_intfs as the sequence of its items, in insertion order
GroupIndex(gen_intfs, key) ==
    IF \E g \in 1..Len(gen_intfs) : gen_intfs[g].key = key
    THEN CHOOSE g \in 1..Len(gen_intfs) : gen_intfs[g].key = key
    ELSE 0

\* st is [err, intfs, gen_intfs]; skip_ipv6 is the Gentoo renderer's filter.
RECURSIVE group_declared(_, _, _, _, _)
group_declared(keys, i, sys, skip_ipv6, st) ==
    IF i > Len(keys) \/ st.err # "none" THEN st
    ELSE
      LET interface == st.intfs[keys[i]]
      IN  IF (skip_ipv6 /\ interface.type = "ipv6") \/ ~Matched(interface, sys)
          THEN group_declared(keys, i + 1, sys, skip_ipv6, st)
          ELSE IF Has(interface, "bond_mode") /\ SlavesMissing(interface, sys)
          THEN [st EXCEPT !.err = "KeyError"]
          ELSE
            LET intf2 == IF Has(interface, "bond_mode")
                         THEN Put(interface, "slaves", SlaveDevices(interface, sys))
                         ELSE interface
                key == RawMacs(intf2)
                g == GroupIndex(st.gen_intfs, key)
            IN  group_declared(keys, i + 1, sys, skip_ipv6,
                    [st EXCEPT !.intfs[keys[i]] = intf2,
                               !.gen_intfs =
                                  IF g = 0
                                  THEN Append(@, [key |-> key, interfs |-> <<intf2>>])
                                  ELSE [@ EXCEPT ![g].interfs = Append(@, intf2)]])

\* next(intf.get('link', intf['id']) for intf in interfs if 'bond_mode' in intf)
HasBond(interfs) == \E j \in 1..Len(interfs) : Has(interfs[j], "bond_mode")

FirstBondName(interfs) ==
    LET j == CHOOSE jj \in 1..Len(interfs) :
                 /\ Has(interfs[jj], "bond_mode")
                 /\ \A h \in 1..(jj - 1) : ~Has(interfs[h], "bond_mode")
    IN  Get(interfs[j], "link", interfs[j].id)

\* The device name of a group (cmd.py 736-743 and 528-535)
GroupNameFails(group) == Len(group.key) # 1 /\ ~HasBond(group.interfs)

GroupName(group, sys) ==
    IF Len(group.key) = 1 THEN sys[group.key[1]]
    ELSE FirstBondName(group.interfs)

----------------------------------------------------------------------------
(* write_gentoo_interfaces *)

GentooPath(name) == "/etc/conf.d/net." \o name

GentooInitPath(name) == "/etc/init.d/net." \o name

\* _exists_gentoo_interface
exists_gentoo_interface(name, hostfs) == GentooPath(name) \in DOMAIN hostfs

\* What a symbolic link to /etc/init.d/net.lo holds
SymlinkToNetLo == << <<"-> /etc/init.d/net.lo">> >>

\* _enable_gentoo_interface: the rc-update call
enable_gentoo_interface(name) == <<"rc-update", "add", "net." \o name, "default">>

GentooVlanName(name, interface) ==
    IF Has(interface, "vlan_id") THEN name \o "_" \o interface.vlan_id ELSE name

\* The route rendering without the test for the default route
GentooRouteGeneric(route) ==
    <<route.network, "netmask", route.netmask, "via", route.gateway>>

\* The routes of a static interface (cmd.py 629-652); the routes are joined
\* by newlines inside one quoted value.
GentooRoute(route) ==
    IF route.network = "0.0.0.0" /\ route.netmask = "0.0.0.0"
    THEN <<"default", "via", route.gateway>>
    ELSE <<route.network, "netmask", route.netmask, "via", route.gateway>>

GentooRoutes(name, routes) ==
    [j \in 1..Len(routes) |->
       IF j = 1 THEN <<"routes_" \o name \o "=">> \o GentooRoute(routes[j])
       ELSE GentooRoute(routes[j])]

\* The lines one interface adds to results (cmd.py 617-667)
GentooLines(name, interface) ==
    LET iname == GentooVlanName(name, interface)
        mac == <<"mac_" \o iname \o "=", interface.mac_address>>
    IN  (IF interface.type = "ipv4"
         THEN << <<"config_" \o iname \o "=", interface.ip_address, "netmask",
                   interface.netmask>>, mac >>
              \o GentooRoutes(name, interface.routes)
         ELSE IF interface.type = "manual"
         THEN << <<"config_" \o iname \o "=", "null">>, mac >>
         ELSE << <<"config_" \o iname \o "=", "dhcp">>, mac >>)
        \o (IF Has(interface, "bond_mode")
            THEN << <<"slaves_" \o iname \o "=">> \o interface.slaves,
                    <<"mode_" \o iname \o "=", interface.bond_mode>> >>
            ELSE <<>>)

\* The rc-update calls _write_gentoo_interface makes for one interface
GentooEnables(name, interface) ==
    IF interface.type = "ipv4" THEN <<>>
    ELSE << enable_gentoo_interface(GentooVlanName(name, interface)) >>

RECURSIVE GentooResults(_, _, _)
GentooResults(name, interfs, j) ==
    IF j > Len(interfs) THEN <<>>
    ELSE GentooLines(name, interfs[j]) \o GentooResults(name, interfs, j + 1)

RECURSIVE GentooWriteOps(_, _, _)
GentooWriteOps(name, interfs, j) ==
    IF j > Len(interfs) THEN <<>>
    ELSE GentooEnables(name, interfs[j]) \o GentooWriteOps(name, interfs, j + 1)

\* _write_gentoo_interface: the content of /etc/conf.d/net.<name>
write_gentoo_interface(name, interfs) ==
    LET vlans == SelectSeq(interfs, LAMBDA intf : Has(intf, "vlan_id"))
    IN  << <<"# Automatically generated, do not edit">> >>
        \o (IF Len(vlans) > 0
            THEN << <<"vlans_" \o name \o "=">>
                    \o [j \in 1..Len(vlans) |-> vlans[j].vlan_id] >>
            ELSE <<>>)
        \o GentooResults(name, interfs, 1)

\* _create_gentoo_net_symlink_and_enable: st is [links, ops], the symbolic
\* links of the host and the operations performed.
create_gentoo_net_symlink_and_enable(interface_name, st) ==
    IF GentooInitPath(interface_name) \in st.links THEN st
    ELSE [st EXCEPT
            !.links = @ \cup {GentooInitPath(interface_name)},
            !.ops = @ \o << <<"symlink", GentooInitPath(interface_name)>>,
                            enable_gentoo_interface(interface_name) >>]

\* _setup_gentoo_network_init
RECURSIVE setup_gentoo_loop(_, _, _, _)
setup_gentoo_loop(sys_interface, interfs, j, st) ==
    IF j > Len(interfs) THEN st
    ELSE
      LET interface == interfs[j]
          interface_name == IF Has(interface, "vlan_id")
                            THEN sys_interface \o "." \o interface.vlan_id
                            ELSE sys_interface
      IN  setup_gentoo_loop(sys_interface, interfs, j + 1,
              IF Has(interface, "bond_master") THEN st
              ELSE create_gentoo_net_symlink_and_enable(interface_name, st))

setup_gentoo_network_init(sys_interface, interfs, st) ==
    LET st1 == setup_gentoo_loop(sys_interface, interfs, 1, st)
    IN  IF Len(interfs) = 0
        THEN create_gentoo_net_symlink_and_enable(sys_interface, st1)
        ELSE st1

\* for raw_macs, interfs in gen_intfs.items(): cmd.py 735-746.
\* st is [err, files, links, ops].
RECURSIVE gentoo_groups(_, _, _, _)
gentoo_groups(gen_intfs, g, sys, st) ==
    IF g > Len(gen_intfs) \/ st.err # "none" THEN st
    ELSE IF GroupNameFails(gen_intfs[g])
    THEN [st EXCEPT !.err = "StopIteration"]
    ELSE
      LET interface_name == GroupName(gen_intfs[g], sys)
          interfs == gen_intfs[g].interfs
          written == [st EXCEPT
                        !.files = Put(@, GentooPath(interface_name),
                                      write_gentoo_interface(interface_name, interfs)),
                        !.ops = @ \o GentooWriteOps(interface_name, interfs, 1)]
          setup == setup_gentoo_network_init(interface_name, interfs,
                       [links |-> written.links, ops |-> written.ops])
      IN  gentoo_groups(gen_intfs, g + 1, sys,
              [written EXCEPT !.links = setup.links, !.ops = setup.ops])

\* for mac, iname in sorted(sys_interfaces.items(), ...): cmd.py 748-760
RECURSIVE gentoo_fallback(_, _, _, _, _, _)
gentoo_fallback(macs, i, gen_intfs, sys, hostfs, st) ==
    IF i > Len(macs) THEN st
    ELSE
      LET mac == macs[i]
          iname == sys[mac]
          interface == [type |-> "ipv4_dhcp", mac_address |-> mac]
      IN  IF exists_gentoo_interface(iname, hostfs)
             \/ GroupIndex(gen_intfs, <<mac>>) # 0
          THEN gentoo_fallback(macs, i + 1, gen_intfs, sys, hostfs, st)
          ELSE
            LET written == [st EXCEPT
                              !.files = Put(@, GentooPath(iname),
                                            write_gentoo_interface(iname, <<interface>>)),
                              !.ops = @ \o GentooWriteOps(iname, <<interface>>, 1)]
                setup == setup_gentoo_network_init(iname, <<>>,
                             [links |-> written.links, ops |-> written.ops])
            IN  gentoo_fallback(macs, i + 1, gen_intfs, sys, hostfs,
                    [written EXCEPT !.links = setup.links, !.ops = setup.ops])

\* The symbolic links of the host
Symlinks(hostfs) == {p \in DOMAIN hostfs : hostfs[p] = SymlinkToNetLo}

\* The write set, the operations performed while rendering, or the
\* exception: [err, files, intfs, links, ops]
write_gentoo_interfaces(intfs, sys, hostfs) ==
    LET grouped == group_declared(SortedById(intfs), 1, sys, TRUE,
                       [err |-> "none", intfs |-> intfs, gen_intfs |-> <<>>])
        st0 == [err |-> grouped.err, files |-> EmptyDict,
                links |-> Symlinks(hostfs), ops |-> <<>>]
        st1 == gentoo_groups(grouped.gen_intfs, 1, sys, st0)
        st2 == IF st1.err # "none" THEN st1
               ELSE gentoo_fallback(SortedByName(sys), 1, grouped.gen_intfs,
                                    sys, hostfs, st1)
    IN  [err |-> st2.err, files |-> st2.files, intfs |-> grouped.intfs,
         links |-> st2.links, ops |-> st2.ops]

----------------------------------------------------------------------------
(* write_networkd_interfaces *)

NetworkPath(name) == "/etc/systemd/network/" \o name \o ".network"

NetdevPath(name) == "/etc/systemd/network/" \o name \o ".netdev"

\* files_struct is path -> (section -> list): the helpers create what is
\* missing, as the "if ... not in files_struct" tests of the code do.
Ensure(files_struct, path, section) ==
    LET file == Get(files_struct, path, EmptyDict)
    IN  Put(files_struct, path,
            IF Has(file, section) THEN file ELSE Put(file, section, <<>>))

AppendTo(files_struct, path, section, line) ==
    [files_struct EXCEPT ![path][section] = Append(@, line)]

InSection(files_struct, path, section, line) ==
    line \in Range(files_struct[path][section])

\* list.remove: drops the first occurrence
RemoveFirst(seq, line) ==
    LET j == CHOOSE jj \in 1..Len(seq) :
                 seq[jj] = line /\ \A h \in 1..(jj - 1) : seq[h] # line
    IN  [h \in 1..(Len(seq) - 1) |-> IF h < j THEN seq[h] ELSE seq[h + 1]]

NetworkdTypes == {"ipv4_dhcp", "ipv6_slaac", "ipv6_dhcpv6_stateful", "manual",
                  "ipv4", "ipv6"}

NetworkdVlanName(name, interface) ==
    IF Has(interface, "vlan_id")
    THEN name \o "-vlan" \o interface.vlan_id ELSE name

\* cmd.py 326-345: the [Match] section and, for a known type, a vlan or a
\* bond, the [Network] section
NetworkdMatch(fstruct, iname, interface) ==
    LET path == NetworkPath(iname)
        network(f) == IF interface.type \in NetworkdTypes
                         \/ Has(interface, "vlan_id")
                         \/ Has(interface, "bond_mode")
                      THEN Ensure(f, path, "[Network]") ELSE f
    IN  network(AppendTo(AppendTo(Ensure(fstruct, path, "[Match]"), path,
                                  "[Match]",
                                  <<"MACAddress=", interface.mac_address>>),
                         path, "[Match]", <<"Name=", iname>>))

\* cmd.py 346-371: the DHCP= and IPv6AcceptRA= settings
NetworkdDhcp(fstruct, iname, interface) ==
    LET path == NetworkPath(iname)
        dhcp4(f) == IF interface.type = "ipv4_dhcp"
                    THEN AppendTo(f, path, "[Network]",
                           IF InSection(f, path, "[Network]", <<"DHCP=", "ipv6">>)
                           THEN <<"DHCP=", "yes">> ELSE <<"DHCP=", "ipv4">>)
                    ELSE f
        dhcp6(f) == IF interface.type = "ipv6_dhcpv6_stateful"
                    THEN AppendTo(f, path, "[Network]",
                           IF InSection(f, path, "[Network]", <<"DHCP=", "ipv4">>)
                           THEN <<"DHCP=", "yes">> ELSE <<"DHCP=", "ipv6">>)
                    ELSE f
        accept_ra(f) ==
            IF interface.type = "ipv6_slaac"
            THEN AppendTo(
                   IF InSection(f, path, "[Network]", <<"IPv6AcceptRA=", "no">>)
                   THEN [f EXCEPT ![path]["[Network]"] =
                           RemoveFirst(@, <<"IPv6AcceptRA=", "no">>)]
                   ELSE f,
                   path, "[Network]", <<"IPv6AcceptRA=", "yes">>)
            ELSE IF ~InSection(f, path, "[Network]", <<"IPv6AcceptRA=", "yes">>)
                 THEN AppendTo(f, path, "[Network]", <<"IPv6AcceptRA=", "no">>)
                 ELSE f
    IN  accept_ra(dhcp6(dhcp4(fstruct)))

\* cmd.py 374-391: the addresses of a static interface
NetworkdAddress(fstruct, iname, interface) ==
    LET path == NetworkPath(iname)
    IN  IF interface.type \notin {"ipv4", "ipv6"} THEN fstruct
        ELSE AppendTo(Ensure(fstruct, path, "addresses"), path, "addresses",
               <<"Address=",
                 interface.ip_address \o "/" \o
                   (IF interface.type = "ipv4"
                    THEN ipv4_netmask_length(interface.netmask)
                    ELSE ipv6_netmask_length(interface.netmask))>>)

\* cmd.py 396-415: one route, as the dict appended to 'routes'
NetworkdRoute(interface, route) ==
    [route |-> <<"Destination=",
                 route.network \o "/" \o
                   (IF interface.type \in {"ipv6", "ipv6_slaac",
                                           "ipv6_dhcpv6_stateful"}
                    THEN ipv6_netmask_length(route.netmask)
                    ELSE ipv4_netmask_length(route.netmask))>>,
     gw |-> <<"Gateway=", route.gateway>>]

NetworkdRoutes(fstruct, iname, interface) ==
    LET path == NetworkPath(iname)
    IN  IF ~Has(interface, "routes") THEN fstruct
        ELSE [Ensure(fstruct, path, "routes") EXCEPT ![path]["routes"] =
                @ \o [j \in 1..Len(interface.routes) |->
                        NetworkdRoute(interface, interface.routes[j])]]

\* cmd.py 449-461: the slaves' .network files name the bond
RECURSIVE NetworkdSlaves(_, _, _, _)
NetworkdSlaves(fstruct, iname, slaves, j) ==
    IF j > Len(slaves) THEN fstruct
    ELSE NetworkdSlaves(
             AppendTo(Ensure(fstruct, NetworkPath(slaves[j]), "[Network]"),
                      NetworkPath(slaves[j]), "[Network]", <<"Bond=", iname>>),
             iname, slaves, j + 1)

\* cmd.py 418-475: the .netdev file; "if 'bond_mode' or 'vlan_id' in
\* interface" holds for every interface.
NetworkdNetdev(fstruct, iname, interface) ==
    LET path == NetdevPath(iname)
        bond == Has(interface, "bond_mode")
        name(f) == AppendTo(Ensure(f, path, "[NetDev]"), path, "[NetDev]",
                            <<"Name=", iname>>)
        mac(f) == IF Has(interface, "mac_address")
                  THEN AppendTo(f, path, "[NetDev]",
                                <<"MACAddress=", interface.mac_address>>)
                  ELSE f
        kind_vlan(f) ==
            IF Has(interface, "vlan_id")
            THEN [AppendTo(f, path, "[NetDev]", <<"Kind=", "vlan">>)
                    EXCEPT ![path] = Put(@, "[VLAN]",
                                         << <<"Id=", interface.vlan_id>> >>)]
            ELSE f
        kind_bond(f) ==
            IF bond
            THEN [AppendTo(f, path, "[NetDev]", <<"Kind=", "bond">>)
                    EXCEPT ![path] = Put(@, "[Bond]",
                                         << <<"Mode=", interface.bond_mode>>,
                                            <<"LACPTransmitRate=", "fast">> >>)]
            ELSE f
        slaves(f) == IF bond /\ Has(interface, "slaves")
                     THEN NetworkdSlaves(f, iname, interface.slaves, 1)
                     ELSE f
        hash_policy(f) ==
            IF bond /\ Has(interface, "bond_xmit_hash_policy")
            THEN AppendTo(f, path, "[Bond]",
                   <<"TransmitHashPolicy=", interface.bond_xmit_hash_policy>>)
            ELSE f
        miimon(f) == IF bond /\ Has(interface, "bond_miimon")
                     THEN AppendTo(f, path, "[Bond]",
                                   <<"MIIMonitorSec=", interface.bond_miimon>>)
                     ELSE f
    IN  miimon(hash_policy(slaves(kind_bond(kind_vlan(mac(name(fstruct)))))))

\* Reading files_struct[network_file]['[Network]'] raises KeyError when
\* the section was not created (cmd.py 340-371).
NetworkdNoSection(fstruct, iname, interface) ==
    /\ interface.type \notin NetworkdTypes
    /\ ~Has(interface, "vlan_id")
    /\ ~Has(interface, "bond_mode")
    /\ ~Has(Get(fstruct, NetworkPath(iname), EmptyDict), "[Network]")

\* for interface in interfaces: cmd.py 320-475.  st is [err, fstruct].
RECURSIVE networkd_loop(_, _, _, _)
networkd_loop(name, interfs, j, st) ==
    IF j > Len(interfs) \/ st.err # "none" THEN st
    ELSE
      LET interface == interfs[j]
          iname == NetworkdVlanName(name, interface)
      IN  IF NetworkdNoSection(st.fstruct, iname, interface)
          THEN [st EXCEPT !.err = "KeyError"]
          ELSE networkd_loop(name, interfs, j + 1,
                 [st EXCEPT !.fstruct =
                    NetworkdNetdev(
                      NetworkdRoutes(
                        NetworkdAddress(
                          NetworkdDhcp(
                            NetworkdMatch(@, iname, interface),
                            iname, interface),
                          iname, interface),
                        iname, interface),
                      iname, interface)])

\* cmd.py 477-493: the vlans of the device.  vlans[0].split('-')[0] is the
\* device name: no device name of the universe holds a dash.
RECURSIVE NetworkdVlans(_, _, _, _)
NetworkdVlans(fstruct, name, vlans, j) ==
    IF j > Len(vlans) THEN fstruct
    ELSE NetworkdVlans(
             AppendTo(
               Ensure(AppendTo(fstruct, NetworkPath(name), "[Network]",
                               <<"VLAN=", vlans[j]>>),
                      NetworkPath(vlans[j]), "[Network]"),
               NetworkPath(vlans[j]), "[Network]", <<"VLAN=", vlans[j]>>),
             name, vlans, j + 1)

\* _write_networkd_interface: [err, fstruct]
write_networkd_interface(name, interfs, fstruct) ==
    LET vl == SelectSeq(interfs, LAMBDA intf : Has(intf, "vlan_id"))
        vlans(st) ==
            IF st.err # "none" \/ Len(vl) = 0 THEN st
            ELSE [st EXCEPT !.fstruct =
                    NetworkdVlans(Ensure(@, NetworkPath(name), "[Network]"), name,
                                  [j \in 1..Len(vl) |->
                                     NetworkdVlanName(name, vl[j])], 1)]
    IN  vlans(networkd_loop(name, interfs, 1,
                            [err |-> "none", fstruct |-> fstruct]))

\* sorted(set(lines)): the keys and the values of the universe in code-point
\* order; a line is <<key, value>>.
KeyOrder == <<"Bond=", "DHCP=", "IPv6AcceptRA=", "Id=", "Kind=",
              "LACPTransmitRate=", "MACAddress=", "MIIMonitorSec=", "Mode=",
              "Name=", "TransmitHashPolicy=", "VLAN=">>

ValueOrder == <<
    "100", "200", "300", "802.3ad", "bond", "bond0", "bond0-vlan100",
    "bond0-vlan200", "eth0", "eth0-vlan100", "eth0-vlan200", "eth1",
    "eth1-vlan100", "eth1-vlan200", "fa:16:3e:00:00:01", "fa:16:3e:00:00:02",
    "fa:16:3e:00:00:03", "fa:16:3e:00:01:00", "fast", "ipv4", "ipv6",
    "layer3+4", "no", "vlan", "yes" >>

SortedSet(lines) ==
    LET m == Len(ValueOrder)
        all == [i \in 1..(Len(KeyOrder) * m) |->
                  <<KeyOrder[((i - 1) \div m) + 1], ValueOrder[((i - 1) % m) + 1]>>]
    IN  SelectSeq(all, LAMBDA line : line \in Range(lines))

\* One sorted section of a file (cmd.py 555-560, 561-566, 579-596)
NetworkdSection(file, section) ==
    IF ~Has(file, section) THEN <<>>
    ELSE << <<section>> >> \o SortedSet(file[section]) \o << <<>> >>

RECURSIVE NetworkdAddresses(_, _)
NetworkdAddresses(addresses, j) ==
    IF j > Len(addresses) THEN <<>>
    ELSE << <<"[Address]">>, addresses[j], <<>> >>
         \o NetworkdAddresses(addresses, j + 1)

RECURSIVE NetworkdRouteSections(_, _)
NetworkdRouteSections(routes, j) ==
    IF j > Len(routes) THEN <<>>
    ELSE << <<"[Route]">>, routes[j].route, routes[j].gw, <<>> >>
         \o NetworkdRouteSections(routes, j + 1)

\* file_contents of one file (cmd.py 554-597)
NetworkdContents(file) ==
    << <<"# Automatically generated, do not edit">> >>
    \o NetworkdSection(file, "[Match]")
    \o NetworkdSection(file, "[Network]")
    \o NetworkdAddresses(Get(file, "addresses", <<>>), 1)
    \o NetworkdRouteSections(Get(file, "routes", <<>>), 1)
    \o NetworkdSection(file, "[NetDev]")
    \o NetworkdSection(file, "[VLAN]")
    \o NetworkdSection(file, "[Bond]")

\* for raw_macs, interfs in gen_intfs.items(): cmd.py 527-537
RECURSIVE networkd_groups(_, _, _, _)
networkd_groups(gen_intfs, g, sys, st) ==
    IF g > Len(gen_intfs) \/ st.err # "none" THEN st
    ELSE IF GroupNameFails(gen_intfs[g])
    THEN [st EXCEPT !.err = "StopIteration"]
    ELSE networkd_groups(gen_intfs, g + 1, sys,
             write_networkd_interface(GroupName(gen_intfs[g], sys),
                                      gen_intfs[g].interfs, st.fstruct))

\* for mac, iname in sorted(sys_interfaces.items(), ...): cmd.py 539-551.
\* The existence test is the Gentoo one.
RECURSIVE networkd_fallback(_, _, _, _, _, _)
networkd_fallback(macs, i, gen_intfs, sys, hostfs, st) ==
    IF i > Len(macs) \/ st.err # "none" THEN st
    ELSE
      LET mac == macs[i]
          iname == sys[mac]
      IN  IF exists_gentoo_interface(iname, hostfs)
             \/ GroupIndex(gen_intfs, <<mac>>) # 0
          THEN networkd_fallback(macs, i + 1, gen_intfs, sys, hostfs, st)
          ELSE networkd_fallback(macs, i + 1, gen_intfs, sys, hostfs,
                 write_networkd_interface(
                     iname, << [type |-> "ipv4_dhcp", mac_address |-> mac] >>,
                     st.fstruct))

\* The write set, or the exception: [err, files, intfs]
write_networkd_interfaces(intfs, sys, hostfs) ==
    LET contents(st, grouped) ==
            [err |-> st.err,
             files |-> IF st.err # "none" THEN EmptyDict
                       ELSE [path \in DOMAIN st.fstruct |->
                               NetworkdContents(st.fstruct[path])],
             intfs |-> grouped.intfs]
        written(grouped) ==
            contents(
              networkd_fallback(SortedByName(sys), 1, grouped.gen_intfs, sys,
                  hostfs,
                  networkd_groups(grouped.gen_intfs, 1, sys,
                      [err |-> grouped.err, fstruct |-> EmptyDict])),
              grouped)
    IN  written(group_declared(SortedById(intfs), 1, sys, FALSE,
                    [err |-> "none", intfs |-> intfs, gen_intfs |-> <<>>]))

----------------------------------------------------------------------------
(* write_dns_info and get_dns_from_config_drive *)

get_dns_from_config_drive(net) ==
    IF ~Has(net, "services") THEN <<>>
    ELSE LET dns == SelectSeq(net.services, LAMBDA f : f.type = "dns")
         IN  [j \in 1..Len(dns) |-> dns[j].address]

resolv_conf == "/etc/resolv.conf"

write_dns_info(dns_servers) ==
    Put(EmptyDict, resolv_conf,
        [j \in 1..Len(dns_servers) |-> <<"nameserver", dns_servers[j]>>])

----------------------------------------------------------------------------
(* The kernel's network devices and get_sys_interfaces *)

\* os.listdir(sys_root), and each device's address attribute
Devices == <<"eth0", "eth1", "lo">>

DeviceMac(iface) ==
    CASE iface = "eth0" -> MAC1
      [] iface = "eth1" -> MAC2
      [] OTHER -> "00:00:00:00:00:00"

\* f.startswith(ignored_interfaces), on the device names of the universe
StartsWithIgnored(iface) == iface \in {"lo", "bond0", "sit0", "tunl0"}

PERMANENT_ADDR_TYPE == "0"

\* 'text' in open(file_name).read(): whether a word of the content is one
\* of those that hold the text
Mentions(content, words) ==
    \E i \in 1..Len(content) : \E j \in 1..Len(content[i]) : content[i][j] \in words

\* is_interface_vlan
is_interface_vlan(iface, distro, hostfs) ==
    IF distro \in {"debian", "ubuntu"}
    THEN /\ DebianPath(iface) \in DOMAIN hostfs
         /\ Mentions(hostfs[DebianPath(iface)], {"vlan-raw-device"})
    ELSE IF distro \in {"redhat", "centos", "fedora"}
    THEN /\ IfcfgPath(iface, distro) \in DOMAIN hostfs
         /\ \E i \in 1..Len(hostfs[IfcfgPath(iface, distro)]) :
               hostfs[IfcfgPath(iface, distro)][i] = <<"VLAN=", "YES">>
    ELSE IF is_suse(distro)
    THEN /\ IfcfgPath(iface, distro) \in DOMAIN hostfs
         /\ Mentions(hostfs[IfcfgPath(iface, distro)], {"ETHERDEVICE="})
    ELSE IF distro = "gentoo"
    THEN /\ GentooPath(iface) \in DOMAIN hostfs
         /\ Mentions(hostfs[GentooPath(iface)], {"vlan_id"})
    ELSE FALSE

\* is_interface_bridge: the content is lowercased before the search
is_interface_bridge(iface, distro, hostfs) ==
    IF distro \in {"debian", "ubuntu"}
    THEN /\ DebianPath(iface) \in DOMAIN hostfs
         /\ Mentions(hostfs[DebianPath(iface)], {"bridge_ports"})
    ELSE IF distro \in {"redhat", "centos", "fedora"}
    THEN /\ IfcfgPath(iface, distro) \in DOMAIN hostfs
         /\ \E i \in 1..Len(hostfs[IfcfgPath(iface, distro)]) :
               hostfs[IfcfgPath(iface, distro)][i] \in
                   {<<"TYPE=", "Bridge">>, <<"TYPE=", "bridge">>}
    ELSE IF is_suse(distro)
    THEN /\ IfcfgPath(iface, distro) \in DOMAIN hostfs
         /\ \E i \in 1..Len(hostfs[IfcfgPath(iface, distro)]) :
               hostfs[IfcfgPath(iface, distro)][i] = <<"BRIDGE=", "yes">>
    ELSE IF distro = "gentoo"
    THEN /\ GentooPath(iface) \in DOMAIN hostfs
         /\ Mentions(hostfs[GentooPath(iface)], {"bridge", "bridge_ports"})
    ELSE FALSE

\* The devices get_sys_interfaces looks at (cmd.py 1183-1200), in the order
\* of Devices
Candidates(interface, distro, hostfs) ==
    SelectSeq(IF interface # "None" THEN <<interface>>
              ELSE SelectSeq(Devices, LAMBDA f : ~StartsWithIgnored(f)),
              LAMBDA iface : /\ ~is_interface_vlan(iface, distro, hostfs)
                             /\ ~is_interface_bridge(iface, distro, hostfs))

\* The "ip link set dev <iface> up" calls of interface_live, for the
\* devices of perm whose first carrier read was not up
LinkUpCalls(cands, perm, up0, noop) ==
    LET down == SelectSeq(cands, LAMBDA f : f \in perm /\ f \notin up0 /\ ~noop)
    IN  [j \in 1..Len(down) |-> <<"ip", "link", "set", "dev", down[j], "up">>]

\* if_dict after the first loop (cmd.py 1190-1213): interface_live is true
\* for a device that is up, and for a device it brought up
IfDict(perm, up0, noop) ==
    [iface \in (IF noop THEN up0 ELSE perm) |-> DeviceMac(iface)]

\* The rounds of the carrier wait: for x in range(0, 90)
PollRounds == 90

\* A wait that never finds all the interfaces up
AllUpNever(up_list, ifd) == FALSE

\* if sorted(if_up_list) == sorted(if_dict.keys()): break (cmd.py 1229-1231)
AllUp(up_list, ifd) == up_list = DOMAIN ifd

\* sys_interfaces[mac] = iface for the devices seen up in a round
AddSysInterfaces(sys, ifd, ups) ==
    [mac \in (DOMAIN sys) \cup {ifd[iface] : iface \in ups} |->
       IF \E iface \in ups : ifd[iface] = mac
       THEN CHOOSE iface \in ups : ifd[iface] = mac
       ELSE sys[mac]]

----------------------------------------------------------------------------
(* finish_files *)

\* sorted(files_to_write.keys()): the paths of the universe in code-point
\* order
PathOrder == <<
    "/etc/conf.d/net.bond0", "/etc/conf.d/net.eth0", "/etc/conf.d/net.eth1",
    "/etc/network/interfaces", "/etc/network/interfaces.d/bond0.100.cfg",
    "/etc/network/interfaces.d/bond0.200.cfg",
    "/etc/network/interfaces.d/bond0.cfg",
    "/etc/network/interfaces.d/eth0.100.cfg",
    "/etc/network/interfaces.d/eth0.200.cfg",
    "/etc/network/interfaces.d/eth0.cfg",
    "/etc/network/interfaces.d/eth1.100.cfg",
    "/etc/network/interfaces.d/eth1.200.cfg",
    "/etc/network/interfaces.d/eth1.cfg", "/etc/resolv.conf",
    "/etc/sysconfig/network-scripts/ifcfg-bond0",
    "/etc/sysconfig/network-scripts/ifcfg-bond0.100",
    "/etc/sysconfig/network-scripts/ifcfg-bond0.200",
    "/etc/sysconfig/network-scripts/ifcfg-eth0",
    "/etc/sysconfig/network-scripts/ifcfg-eth0.100",
    "/etc/sysconfig/network-scripts/ifcfg-eth0.200",
    "/etc/sysconfig/network-scripts/ifcfg-eth1",
    "/etc/sysconfig/network-scripts/ifcfg-eth1.100",
    "/etc/sysconfig/network-scripts/ifcfg-eth1.200",
    "/etc/sysconfig/network-scripts/route-bond0",
    "/etc/sysconfig/network-scripts/route-bond0.100",
    "/etc/sysconfig/network-scripts/route-bond0.200",
    "/etc/sysconfig/network-scripts/route-eth0",
    "/etc/sysconfig/network-scripts/route-eth0.100",
    "/etc/sysconfig/network-scripts/route-eth0.200",
    "/etc/sysconfig/network-scripts/route-eth1",
    "/etc/sysconfig/network-scripts/route-eth1.100",
    "/etc/sysconfig/network-scripts/route-eth1.200",
    "/etc/sysconfig/network/ifcfg-bond0",
    "/etc/sysconfig/network/ifcfg-bond0.100",
    "/etc/sysconfig/network/ifcfg-bond0.200",
    "/etc/sysconfig/network/ifcfg-eth0",
    "/etc/sysconfig/network/ifcfg-eth0.100",
    "/etc/sysconfig/network/ifcfg-eth0.200",
    "/etc/sysconfig/network/ifcfg-eth1",
    "/etc/sysconfig/network/ifcfg-eth1.100",
    "/etc/sysconfig/network/ifcfg-eth1.200",
    "/etc/sysconfig/network/ifroute-bond0",
    "/etc/sysconfig/network/ifroute-bond0.100",
    "/etc/sysconfig/network/ifroute-bond0.200",
    "/etc/sysconfig/network/ifroute-eth0",
    "/etc/sysconfig/network/ifroute-eth0.100",
    "/etc/sysconfig/network/ifroute-eth0.200",
    "/etc/sysconfig/network/ifroute-eth1",
    "/etc/sysconfig/network/ifroute-eth1.100",
    "/etc/sysconfig/network/ifroute-eth1.200",
    "/etc/systemd/network/bond0-vlan100.netdev",
    "/etc/systemd/network/bond0-vlan100.network",
    "/etc/systemd/network/bond0-vlan200.netdev",
    "/etc/systemd/network/bond0-vlan200.network",
    "/etc/systemd/network/bond0.netdev", "/etc/systemd/network/bond0.network",
    "/etc/systemd/network/eth0-vlan100.netdev",
    "/etc/systemd/network/eth0-vlan100.network",
    "/etc/systemd/network/eth0-vlan200.netdev",
    "/etc/systemd/network/eth0-vlan200.network",
    "/etc/systemd/network/eth0.netdev", "/etc/systemd/network/eth0.network",
    "/etc/systemd/network/eth1-vlan100.netdev",
    "/etc/systemd/network/eth1-vlan100.network",
    "/etc/systemd/network/eth1-vlan200.netdev",
    "/etc/systemd/network/eth1-vlan200.network",
    "/etc/systemd/network/eth1.netdev", "/etc/systemd/network/eth1.network" >>

\* The paths of the write set in descending order
SortedPathsDescending(ftw) ==
    LET up == SelectSeq(PathOrder, LAMBDA p : p \in DOMAIN ftw)
    IN  [i \in 1..Len(up) |-> up[Len(up) + 1 - i]]

\* files = sorted(files_to_write.keys()): cmd.py 1072
SortedPaths(ftw) == SelectSeq(PathOrder, LAMBDA p : p \in DOMAIN ftw)

\* What open(k, 'w') and the write can end with
OpenOutcomes(faults) ==
    IF faults THEN {"ok", "ELOOP", "EACCES", "EROFS"} ELSE {"ok"}

\* The except clause with the retry guard off by one: retries < 2
OnIOErrorRetryAgain(errno, tries) ==
    IF errno = "ELOOP" /\ tries < 2 THEN "unlink-retry"
    ELSE "AttributeError"

\* The except clause (cmd.py 1092-1106): what finish_files does after an
\* IOError.  errno has no attribute EACCESS, so evaluating the elif raises
\* AttributeError.
OnIOError(errno, tries) ==
    IF errno = "ELOOP" /\ tries < 1 THEN "unlink-retry"
    ELSE "AttributeError"

----------------------------------------------------------------------------
(* The payloads, hosts and command lines the runs are started with *)

Phy(id, mac) == [id |-> id, type |-> "phy", ethernet_mac_address |-> mac]

BondLink(id, mac, bond_links) ==
    [id |-> id, type |-> "bond", ethernet_mac_address |-> mac,
     bond_links |-> bond_links, bond_mode |-> "802.3ad", bond_miimon |-> "100",
     bond_xmit_hash_policy |-> "layer3+4"]

VlanLink(id, vlan_link, vlan_id) ==
    [id |-> id, type |-> "vlan", vlan_link |-> vlan_link, vlan_id |-> vlan_id]

Route4Default == [network |-> "0.0.0.0", netmask |-> "0.0.0.0", gateway |-> "192.0.2.1"]
Route4Other ==
    [network |-> "198.51.100.0", netmask |-> "255.255.255.0", gateway |-> "192.0.2.254"]
Route6Default == [network |-> "::", netmask |-> "::", gateway |-> "2001:db8::1"]
Route6Other ==
    [network |-> "2001:db8:1::", netmask |-> "ffff:ffff:ffff:ffff::",
     gateway |-> "2001:db8::fe"]

Static4(id, link) ==
    [id |-> id, link |-> link, type |-> "ipv4", ip_address |-> "192.0.2.10",
     netmask |-> "255.255.255.0", routes |-> <<Route4Default, Route4Other>>]

Static6(id, link) ==
    [id |-> id, link |-> link, type |-> "ipv6", ip_address |-> "2001:db8::10",
     netmask |-> "ffff:ffff:ffff:ffff::", routes |-> <<Route6Default, Route6Other>>]

Dhcp(id, link) == [id |-> id, link |-> link, type |-> "ipv4_dhcp"]

PayloadStatic4 ==
    [links |-> <<Phy("p1", MAC1)>>, networks |-> <<Static4("net0", "p1")>>,
     services |-> <<[type |-> "dns", address |-> "192.0.2.53"]>>]

PayloadDhcp == [links |-> <<Phy("p1", MAC1)>>, networks |-> <<Dhcp("net0", "p1")>>]

PayloadStatic6 ==
    [links |-> <<Phy("p1", MAC1)>>, networks |-> <<Static6("net0", "p1")>>]

PayloadBond ==
    [links |-> <<Phy("p1", MAC1), Phy("p2", MAC2U),
                 BondLink("bond0", MAC1, <<"p1", "p2">>)>>,
     networks |-> <<Dhcp("net0", "bond0")>>]

PayloadVlan ==
    [links |-> <<Phy("p1", MAC1),
                 Put(VlanLink("vlan1", "p1", "100"), "vlan_mac_address", MACV)>>,
     networks |-> <<Static4("net0", "p1"), Dhcp("net1", "vlan1")>>]

PayloadVlanBond ==
    [links |-> <<Phy("p1", MAC1), Phy("p2", MAC2U),
                 BondLink("bond0", MAC1, <<"p1", "p2">>),
                 VlanLink("vlan2", "bond0", "200")>>,
     networks |-> <<Static4("net0", "vlan2")>>]

Payloads == {PayloadStatic4, PayloadDhcp, PayloadStatic6, PayloadBond,
             PayloadVlan, PayloadVlanBond, EmptyDict}

Distros == {"debian", "redhat", "opensuse", "gentoo", "networkd"}

\* The file a dialect keeps for a device
ConfigPath(distro, name) ==
    IF distro \in {"debian", "ubuntu"} THEN DebianPath(name)
    ELSE IF distro \in {"redhat", "centos", "fedora"} \/ is_suse(distro)
    THEN IfcfgPath(name, distro)
    ELSE IF distro = "gentoo" THEN GentooPath(name)
    ELSE NetworkPath(name)

\* The device files a host of the dialect may hold before the run; a host
\* that runs systemd-networkd may also hold netifrc files.
HostConfigPaths(distro) ==
    {ConfigPath(distro, name) : name \in {"eth0", "eth1"}}
    \cup (IF distro = "networkd"
          THEN {GentooPath(name) : name \in {"eth0", "eth1"}} ELSE {})

\* What a file written by the operator holds
OperatorContent == << <<"#", "local", "configuration">> >>

MaxExisting == 2

InitialFs(distro) ==
    {[p \in S |-> OperatorContent] :
        S \in {T \in SUBSET HostConfigPaths(distro) : Cardinality(T) <= MaxExisting}}

\* The locals of get_sys_interfaces and finish_files outside their calls
NoLocals ==
    /\ if_dict = EmptyDict
    /\ seen_permanent = {}
    /\ if_up_list = {}
    /\ x = 0
    /\ files = <<>>
    /\ k = 0
    /\ retries = 0

Init ==
    /\ pc = "start"
    /\ args \in [distro : Distros, noop : {FALSE}, interface : {"None"},
                 skip_dns : {FALSE}]
    /\ \E payload \in Payloads :
          drive = [data |-> Source(TRUE, payload), info |-> NoSource,
                   vendor |-> NoSource]
    /\ fs \in InitialFs(args.distro)
    /\ fs_faults = FALSE
    /\ InsideLock
    /\ network_info = EmptyDict
    /\ interfaces = EmptyDict
    /\ sys_interfaces = EmptyDict
    /\ seen_up = {}
    /\ files_to_write = EmptyDict
    /\ oplog = <<>>
    /\ err = "none"
    /\ NoLocals

----------------------------------------------------------------------------
(* The steps of write_network_info_from_config_drive *)

\* network_info = get_network_info(args): cmd.py 1303
GetNetworkInfo ==
    /\ pc = "start"
    /\ network_info' = get_network_info(drive)
    /\ pc' = "resolve"
    /\ UNCHANGED <<lock, at, args, drive, interfaces, if_dict, if_up_list, x, seen_up, seen_permanent,
                   sys_interfaces, fs, fs_faults, files_to_write, files, k,
                   retries, oplog, err>>

\* A dns that is filled whether or not --skip-dns is given
DnsFilesUnsuppressed(skip_dns, net) ==
    write_dns_info(get_dns_from_config_drive(net))

\* dns = {}; if not args.skip_dns: dns = write_dns_info(...): cmd.py 1305-1307
DnsFiles(skip_dns, net) ==
    IF skip_dns THEN EmptyDict
    ELSE write_dns_info(get_dns_from_config_drive(net))

\* dns = write_dns_info(...); interfaces = get_config_drive_interfaces(...):
\* cmd.py 1305-1308.  An exception ends the run.
Resolve ==
    /\ pc = "resolve"
    /\ LET r == get_config_drive_interfaces(network_info)
       IN  /\ files_to_write' = DnsFiles(args.skip_dns, network_info)
           /\ interfaces' = r.interfaces
           /\ err' = r.err
           /\ pc' = IF r.err = "none" THEN "probe" ELSE "abort"
    /\ UNCHANGED <<lock, at, args, drive, network_info, if_dict, if_up_list, x, seen_up, seen_permanent,
                   sys_interfaces, fs, fs_faults, files, k, retries, oplog>>

\* get_sys_interfaces, the first loop: cmd.py 1178-1213.  The kernel decides
\* which candidates have a permanent address (perm) and whose carrier reads
\* '1' at the first read (up0).
ProbeCandidates ==
    /\ pc = "probe"
    /\ LET cands == Candidates(args.interface, args.distro, fs)
       IN  \E perm \in SUBSET Range(cands) : \E up0 \in SUBSET perm :
              /\ if_dict' = IfDict(perm, up0, args.noop)
              /\ seen_up' = up0
              /\ seen_permanent' = perm
              /\ oplog' = oplog \o LinkUpCalls(cands, perm, up0, args.noop)
    /\ if_up_list' = {}
    /\ x' = 0
    /\ pc' = "poll"
    /\ UNCHANGED <<lock, at, args, drive, network_info, interfaces, sys_interfaces, fs,
                   fs_faults, files_to_write, files, k, retries, err>>

\* get_sys_interfaces, one round of "for x in range(0, 90)": cmd.py 1218-1232,
\* and the return when the loop ends: 1234-1243.  ups are the pending
\* candidates whose carrier reads '1' in this round.
PollRound ==
    /\ pc = "poll"
    /\ \E ups \in SUBSET ((DOMAIN if_dict) \ if_up_list) :
          LET up_list == if_up_list \cup ups
              ends == AllUp(up_list, if_dict) \/ x + 1 >= PollRounds
          IN  /\ sys_interfaces' = AddSysInterfaces(sys_interfaces, if_dict, ups)
              /\ seen_up' = seen_up \cup ups
              /\ seen_permanent' = IF ends THEN {} ELSE seen_permanent
              /\ if_up_list' = IF ends THEN {} ELSE up_list
              /\ if_dict' = IF ends THEN EmptyDict ELSE if_dict
              /\ x' = IF ends THEN 0 ELSE x + 1
              /\ pc' = IF ends THEN "render" ELSE "poll"
    /\ UNCHANGED <<lock, at, args, drive, network_info, interfaces, fs, fs_faults,
                   files_to_write, files, k, retries, oplog, err>>

\* The renderer write_static_network_info dispatches to (cmd.py 1050-1066),
\* as [known, err, files, intfs, links, ops]
Rendered(distro, intfs, sys, hostfs) ==
    IF distro \in {"debian", "ubuntu"}
    THEN LET r == write_debian_interfaces(intfs, sys, hostfs)
         IN  [known |-> TRUE, err |-> r.err, files |-> r.files, intfs |-> intfs,
              links |-> Symlinks(hostfs), ops |-> <<>>]
    ELSE IF distro \in {"redhat", "centos", "fedora"} \/ is_suse(distro)
    THEN LET r == write_redhat_interfaces(intfs, sys, distro, hostfs)
         IN  [known |-> TRUE, err |-> r.err, files |-> r.files, intfs |-> r.intfs,
              links |-> Symlinks(hostfs), ops |-> <<>>]
    ELSE IF distro = "gentoo"
    THEN LET r == write_gentoo_interfaces(intfs, sys, hostfs)
         IN  [known |-> TRUE, err |-> r.err, files |-> r.files, intfs |-> r.intfs,
              links |-> r.links, ops |-> r.ops]
    ELSE IF distro = "networkd"
    THEN LET r == write_networkd_interfaces(intfs, sys, hostfs)
         IN  [known |-> TRUE, err |-> r.err, files |-> r.files, intfs |-> r.intfs,
              links |-> Symlinks(hostfs), ops |-> <<>>]
    ELSE [known |-> FALSE, err |-> "none", files |-> EmptyDict, intfs |-> intfs,
          links |-> Symlinks(hostfs), ops |-> <<>>]

\* write_static_network_info up to the call of finish_files, and the first
\* line of finish_files: cmd.py 1050-1072
Render ==
    /\ pc = "render"
    /\ \E r \in {Rendered(args.distro, interfaces, sys_interfaces, fs)} :
       \E ftw \in {IF r.err = "none" THEN Update(files_to_write, r.files)
                   ELSE files_to_write} :
       \E sorted \in {IF r.known /\ r.err = "none" THEN SortedPaths(ftw)
                      ELSE <<>>} :
           /\ interfaces' = r.intfs
           /\ fs' = [p \in (DOMAIN fs) \cup r.links |->
                       IF p \in DOMAIN fs THEN fs[p] ELSE SymlinkToNetLo]
           /\ oplog' = oplog \o r.ops
           /\ err' = r.err
           /\ files_to_write' = ftw
           /\ files' = sorted
           /\ k' = IF Len(sorted) = 0 THEN 0 ELSE 1
           /\ pc' = IF r.err # "none" THEN "abort"
                    ELSE IF Len(sorted) = 0 THEN "done" ELSE "finish"
    /\ retries' = 0
    /\ UNCHANGED <<lock, at, args, drive, network_info, if_dict, if_up_list, x, seen_up, seen_permanent,
                   sys_interfaces, fs_faults>>

\* finish_files, one pass of the body for files[k]: cmd.py 1074-1106.  A
\* blank file is skipped, noop prints it, otherwise the file is opened and
\* written; what the open ends with is the host's choice.  oplog records
\* each open with what it ended with, then the write or the unlink.
FinishFile ==
    /\ pc = "finish"
    /\ LET path == files[k]
           content == files_to_write[path]
           last == k = Len(files)
       IN  \E outcome \in (IF content = <<>> \/ args.noop THEN {"none"}
                           ELSE OpenOutcomes(fs_faults)) :
              LET handler == IF outcome \in {"none", "ok"} THEN "next"
                             ELSE OnIOError(outcome, retries)
                  leaves == handler = "AttributeError" \/ (handler = "next" /\ last)
              IN  /\ fs' = IF outcome = "ok" THEN Put(fs, path, content)
                           ELSE IF handler = "unlink-retry" THEN Pop(fs, path)
                           ELSE fs
                  /\ oplog' = IF content = <<>> THEN oplog
                              ELSE IF args.noop THEN Append(oplog, <<"stdout", path>>)
                              ELSE Append(oplog, <<"open", path, outcome>>)
                                   \o (IF outcome = "ok" THEN << <<"write", path>> >>
                                       ELSE IF handler = "unlink-retry"
                                       THEN << <<"unlink", path>> >>
                                       ELSE <<>>)
                  /\ retries' = IF handler = "unlink-retry" THEN 1 ELSE 0
                  /\ err' = IF handler = "AttributeError" THEN "AttributeError" ELSE err
                  /\ k' = IF leaves THEN 0 ELSE IF handler = "next" THEN k + 1 ELSE k
                  /\ files' = IF leaves THEN <<>> ELSE files
                  /\ pc' = IF handler = "AttributeError" THEN "abort"
                           ELSE IF leaves THEN "done" ELSE "finish"
    /\ UNCHANGED <<lock, at, args, drive, network_info, interfaces, if_dict, if_up_list, x,
                   seen_up, seen_permanent, sys_interfaces, fs_faults, files_to_write>>

Next ==
    \/ GetNetworkInfo
    \/ Resolve
    \/ ProbeCandidates
    \/ PollRound
    \/ Render
    \/ FinishFile

Spec == Init /\ [][Next]_vars

\* Sanity of the tables: every path of a write set has a place in PathOrder
PathsKnown == DOMAIN files_to_write \subseteq Range(PathOrder)

----------------------------------------------------------------------------
(* get_network_info over the config-drives: which of the three sources are *)
(* present, and what each holds                                            *)

SourcePayloads == {PayloadDhcp, PayloadStatic4, PayloadStatic6}

Sources == {NoSource} \cup {Source(TRUE, p) : p \in SourcePayloads}

\* vendor_data.json: absent, without the network_info key, or with it
VendorSources ==
    {NoSource, Source(TRUE, [region |-> "r1"])}
    \cup {Source(TRUE, [region |-> "r1", network_info |-> p]) : p \in SourcePayloads}

RestOfInit ==
    /\ network_info = EmptyDict
    /\ interfaces = EmptyDict
    /\ sys_interfaces = EmptyDict
    /\ seen_up = {}
    /\ files_to_write = EmptyDict
    /\ oplog = <<>>
    /\ err = "none"
    /\ NoLocals

InitNetInfo ==
    /\ pc = "start"
    /\ args = [distro |-> "debian", noop |-> FALSE, interface |-> "None",
               skip_dns |-> FALSE]
    /\ drive \in [data : Sources, info : Sources, vendor : VendorSources]
    /\ fs = EmptyDict
    /\ fs_faults = FALSE
    /\ InsideLock
    /\ RestOfInit

NextNetInfo == GetNetworkInfo

SpecNetInfo == InitNetInfo /\ [][NextNetInfo]_vars

----------------------------------------------------------------------------
(* get_config_drive_interfaces over the payloads made of the links and     *)
(* networks below, some of which reference a link that is not declared     *)

MaxLinks == 3
MaxNetworks == 2

LinkPool ==
    {Phy("p1", MAC1), Phy("p2", MAC2U),
     BondLink("bond0", MAC3, <<"p1", "p2">>),
     BondLink("bond0", MAC3, <<"p1", "px">>),
     Put(VlanLink("vlan1", "p1", "100"), "vlan_mac_address", MACV),
     VlanLink("vlan2", "bond0", "200"),
     VlanLink("vlanx", "px", "300")}

LinkIds == {"p1", "p2", "bond0", "vlan1", "vlan2", "vlanx"}

NetworkPool ==
    {Dhcp("net0", id) : id \in LinkIds} \cup {Static4("net1", id) : id \in LinkIds}

\* The sequences of at most n elements of pool with distinct ids
DistinctSeqs(pool, n) ==
    {s \in UNION {[1..m -> pool] : m \in 0..n} :
        \A i, j \in 1..Len(s) : i # j => s[i].id # s[j].id}

ResolvePayloads ==
    {EmptyDict}
    \cup {[links |-> ls, networks |-> ns] :
            ls \in DistinctSeqs(LinkPool, MaxLinks),
            ns \in DistinctSeqs(NetworkPool, MaxNetworks)}

InitResolve ==
    /\ pc = "resolve"
    /\ args = [distro |-> "debian", noop |-> FALSE, interface |-> "None",
               skip_dns |-> FALSE]
    /\ \E payload \in ResolvePayloads :
          /\ drive = [data |-> Source(TRUE, payload), info |-> NoSource,
                      vendor |-> NoSource]
          /\ network_info = payload
    /\ fs = EmptyDict
    /\ fs_faults = FALSE
    /\ InsideLock
    /\ interfaces = EmptyDict
    /\ sys_interfaces = EmptyDict
    /\ seen_up = {}
    /\ files_to_write = EmptyDict
    /\ oplog = <<>>
    /\ err = "none"
    /\ NoLocals

NextResolve == Resolve

SpecResolve == InitResolve /\ [][NextResolve]_vars

----------------------------------------------------------------------------
(* finish_files over write sets, on a host where opening a file may fail   *)

FinishPaths == {resolv_conf, eni_path, DebianPath("eth0")}

FinishContents == {<<>>, << <<"auto", "eth0">>, <<"iface", "eth0", "inet", "dhcp">> >>}

WriteSets ==
    UNION {[S -> FinishContents] : S \in (SUBSET FinishPaths) \ {{}}}

InitFinish ==
    /\ pc = "finish"
    /\ args \in [distro : {"debian"}, noop : BOOLEAN, interface : {"None"},
                 skip_dns : {FALSE}]
    /\ drive = [data |-> NoSource, info |-> NoSource, vendor |-> NoSource]
    /\ fs \in {EmptyDict, [p \in {DebianPath("eth0")} |-> SymlinkToNetLo]}
    /\ fs_faults = TRUE
    /\ InsideLock
    /\ files_to_write \in WriteSets
    /\ files = SortedPaths(files_to_write)
    /\ k = 1
    /\ retries = 0
    /\ network_info = EmptyDict
    /\ interfaces = EmptyDict
    /\ sys_interfaces = EmptyDict
    /\ seen_up = {}
    /\ seen_permanent = {}
    /\ if_dict = EmptyDict
    /\ if_up_list = {}
    /\ x = 0
    /\ oplog = <<>>
    /\ err = "none"

NextFinish == FinishFile

SpecFinish == InitFinish /\ [][NextFinish]_vars

----------------------------------------------------------------------------
(* Properties *)

\* The state right after rendering: the write set is complete and nothing
\* of it has been written, so fs still holds the files of before the run
RenderDone == pc = "finish" /\ k = 1 /\ retries = 0

HostDevices == {"eth0", "eth1"}

\* C1: in every dialect, a device whose dialect config file exists on the
\* host before the run has no entry for that file in the run's write set,
\* whether the device is declared or only discovered.
C1_ExistingFileNotInWriteSet ==
    RenderDone =>
       \A name \in HostDevices :
          ConfigPath(args.distro, name) \in DOMAIN fs
             => ConfigPath(args.distro, name) \notin DOMAIN files_to_write

\* The entries of oplog about path
Opened(i, path, outcome) ==
    /\ i \in 1..Len(oplog)
    /\ oplog[i] = <<"open", path, outcome>>

Count(entry) == Cardinality({i \in 1..Len(oplog) : oplog[i] = entry})

\* C2: in write mode, an open that fails with ELOOP is followed by one unlink
\* of the path and one retry; a retry that succeeds writes the content once
\* and the run goes on to another file; a retry that fails aborts the run;
\* no path is unlinked twice or written twice.
C2_EloopUnlinkRetryOnce ==
    /\ \A path \in DOMAIN files_to_write :
          /\ Count(<<"unlink", path>>) <= 1
          /\ Count(<<"write", path>>) <= 1
    /\ \A i \in 1..Len(oplog) : \A path \in DOMAIN files_to_write :
          (Opened(i, path, "ELOOP") /\ (i = 1 \/ oplog[i - 1] # <<"unlink", path>>))
          => /\ i + 1 <= Len(oplog)
             /\ oplog[i + 1] = <<"unlink", path>>
             /\ i + 2 <= Len(oplog) =>
                   /\ oplog[i + 2][1] = "open"
                   /\ oplog[i + 2][2] = path
                   /\ IF oplog[i + 2][3] = "ok"
                      THEN /\ i + 3 <= Len(oplog)
                           /\ oplog[i + 3] = <<"write", path>>
                           /\ i + 4 <= Len(oplog) => oplog[i + 4][2] # path
                      ELSE /\ i + 2 = Len(oplog)
                           /\ pc = "abort"

\* A run in which a path was opened with ELOOP, unlinked, opened again with
\* success and written, and which then went on to another file
C2_Witness ==
    \E i \in 1..Len(oplog) : \E path \in DOMAIN files_to_write :
       /\ Opened(i, path, "ELOOP")
       /\ Opened(i + 2, path, "ok")
       /\ i + 4 <= Len(oplog)
       /\ oplog[i + 3] = <<"write", path>>
       /\ oplog[i + 4][2] # path

\* The errnos of a target that cannot be written because it is read-only
ReadOnlyErrnos == {"EACCES", "EROFS"}

\* C3: in write mode, after an open that fails because the target is
\* read-only the run has not aborted: the file is skipped and the run goes on.
C3_ReadOnlyFileSkipped ==
    \A path \in DOMAIN files_to_write : \A errno \in ReadOnlyErrnos :
       Opened(Len(oplog), path, errno) => pc # "abort"

\* interface_live called "ip link set dev <device> up": the device has a
\* permanent address and its first carrier read was not up
LinkUpCalled(device) ==
    \E i \in 1..Len(oplog) : oplog[i] = <<"ip", "link", "set", "dev", device, "up">>

\* The files a dialect names after a device
DevicePaths(distro, device) ==
    {ConfigPath(distro, device), RoutePath(device, distro), NetdevPath(device)}

\* C4: a device with a permanent address whose carrier never read up is
\* absent from the map the probe returns, is named by no file of the write
\* set, and the run has no fatal error, whatever the payload and the other
\* devices.
C4_NeverUpDeviceHarmless ==
    \A device \in HostDevices :
       (/\ pc \in {"render", "finish", "done", "abort"}
        /\ LinkUpCalled(device)
        /\ device \notin seen_up)
       => /\ DeviceMac(device) \notin DOMAIN sys_interfaces
          /\ err = "none"
          /\ \A path \in DOMAIN files_to_write :
                /\ path \notin DevicePaths(args.distro, device)
                /\ ~Mentions(files_to_write[path], {device})

\* C5: a declared interface is matched exactly when its raw_macs (its own
\* MAC without raw_macs) shares a MAC with the discovered devices; every
\* matched interface is rendered without error, also when only some of its
\* raw_macs are discovered, and an unmatched one leaves the write set as it
\* is without it.
C5_MatchedRendersUnmatchedDropped ==
    /\ pc = "abort" =>
          \A iname \in DOMAIN interfaces : ~Matched(interfaces[iname], sys_interfaces)
    /\ pc = "render" =>
          \A iname \in DOMAIN interfaces :
             ~Matched(interfaces[iname], sys_interfaces)
             => Rendered(args.distro, Pop(interfaces, iname), sys_interfaces, fs).files
                = Rendered(args.distro, interfaces, sys_interfaces, fs).files

\* The MACs the declared interfaces name
DeclaredRawMacs(intfs) == UNION {Range(RawMacs(intfs[iname])) : iname \in DOMAIN intfs}

\* Whether a file configures its device by DHCP
IsDhcpEntry(content) ==
    \/ Mentions(content, {"dhcp"})
    \/ \E i \in 1..Len(content) : content[i] = <<"DHCP=", "ipv4">>

\* C6: in every dialect, a discovered device whose MAC no declared interface
\* names and which has no dialect config file on the host before the run
\* has its DHCP entry in the write set.
C6_UndeclaredDeviceGetsDhcp ==
    RenderDone =>
       \A mac \in DOMAIN sys_interfaces :
          (/\ mac \notin DeclaredRawMacs(interfaces)
           /\ ConfigPath(args.distro, sys_interfaces[mac]) \notin DOMAIN fs)
          => /\ ConfigPath(args.distro, sys_interfaces[mac]) \in DOMAIN files_to_write
             /\ IsDhcpEntry(files_to_write[ConfigPath(args.distro, sys_interfaces[mac])])

\* The links of a payload, by bucket
PhysIds(net) == {l.id : l \in {m \in Range(net.links) : Bucket(m) = "phys"}}

BondIds(net) == {l.id : l \in {m \in Range(net.links) : Bucket(m) = "bonds"}}

\* The vlan links whose vlan_link names neither a physical nor a bond link
DanglingVlans(net) ==
    IF ~Has(net, "links") THEN {}
    ELSE {l.id : l \in {m \in Range(net.links) :
                          /\ m.type = "vlan"
                          /\ m.vlan_link \notin PhysIds(net) \cup BondIds(net)}}

\* The bond links one of whose bond_links is not a physical link
DanglingBonds(net) ==
    IF ~Has(net, "links") THEN {}
    ELSE {l.id : l \in {m \in Range(net.links) :
                          /\ m.type = "bond"
                          /\ \E j \in 1..Len(m.bond_links) :
                                m.bond_links[j] \notin PhysIds(net)}}

\* The payload without the links ids
WithoutLinks(net, ids) ==
    [net EXCEPT !.links = SelectSeq(@, LAMBDA l : l.id \notin ids)]

\* C7: for a payload with a vlan link whose vlan_link cannot be resolved
\* (and that resolves without it), get_config_drive_interfaces returns
\* without error exactly the interfaces of the payload without that vlan link.
C7_DanglingVlanDropped ==
    (/\ pc # "resolve"
     /\ DanglingVlans(network_info) # {}
     /\ get_config_drive_interfaces(
            WithoutLinks(network_info, DanglingVlans(network_info))).err = "none")
    => /\ err = "none"
       /\ interfaces = get_config_drive_interfaces(
              WithoutLinks(network_info, DanglingVlans(network_info))).interfaces

\* C8: for a payload with a bond link one of whose bond_links is not a
\* physical link of the payload (and all of whose vlan links resolve),
\* get_config_drive_interfaces returns without error.
C8_DanglingBondTolerated ==
    (/\ pc # "resolve"
     /\ DanglingBonds(network_info) # {}
     /\ DanglingVlans(network_info) = {})
    => err = "none"

\* The static types a dialect renders
StaticTypes(distro) ==
    IF distro \in {"debian", "ubuntu", "networkd"} THEN {"ipv4", "ipv6"} ELSE {"ipv4"}

\* The Debian dialect leaves out a declared interface whose file exists
SkippedAsExisting(iname) ==
    /\ args.distro \in {"debian", "ubuntu"}
    /\ exists_debian_interface(
           InterfaceName(iname, interfaces[iname], sys_interfaces), fs)

\* The route is of the address family of the interface that carries it
OwnFamily(interface, route) ==
    route.network = (IF interface.type = "ipv6" THEN "::" ELSE "0.0.0.0")

\* The all-zeros routes, each of its interface's own address family, of the
\* static interfaces that were rendered
RenderedZeroRoutes ==
    UNION {{interfaces[iname].routes[j] : j \in
              {n \in 1..Len(interfaces[iname].routes) :
                   /\ IsDefaultRoute(interfaces[iname].routes[n])
                   /\ OwnFamily(interfaces[iname],
                                interfaces[iname].routes[n])}} :
           iname \in {i \in DOMAIN interfaces :
                         /\ interfaces[i].type \in StaticTypes(args.distro)
                         /\ Matched(interfaces[i], sys_interfaces)
                         /\ ~SkippedAsExisting(i)}}

\* Some file of the write set holds the line
Written(line) ==
    \E path \in DOMAIN files_to_write :
       \E i \in 1..Len(files_to_write[path]) : files_to_write[path][i] = line

\* Some file of the write set holds a line that ends with the words
WrittenEnding(words) ==
    \E path \in DOMAIN files_to_write :
       \E i \in 1..Len(files_to_write[path]) :
          LET line == files_to_write[path][i]
          IN  /\ Len(line) >= Len(words)
              /\ SubSeq(line, Len(line) - Len(words) + 1, Len(line)) = words

\* The default-gateway construct of each dialect for a gateway
DefaultGatewayWritten(distro, gateway) ==
    IF distro \in {"debian", "ubuntu"} THEN Written(<<"gateway", gateway>>)
    ELSE IF distro \in {"redhat", "centos", "fedora"}
    THEN Written(<<"DEFROUTE=", "yes">>) /\ Written(<<"GATEWAY=", gateway>>)
    ELSE IF is_suse(distro) THEN Written(<<"default", gateway>>)
    ELSE IF distro = "gentoo" THEN WrittenEnding(<<"default", "via", gateway>>)
    ELSE Written(<<"Gateway=", gateway>>)

\* The all-zeros network as a destination, in the forms the dialects write
ZeroDestinations == {"0.0.0.0", "::", "0.0.0.0/0", "::/0"}

\* A route entry whose destination is the all-zeros network is written
ZeroRouteEntryWritten ==
    \E path \in DOMAIN files_to_write :
       Mentions(files_to_write[path], ZeroDestinations)

\* C9 as claimed: in every dialect an all-zeros route of a rendered static
\* interface is written as the default-gateway construct and no route entry
\* with the all-zeros destination is written.
C9_ZeroRouteIsDefaultGateway ==
    RenderDone =>
       \A route \in RenderedZeroRoutes :
          /\ DefaultGatewayWritten(args.distro, route.gateway)
          /\ ~ZeroRouteEntryWritten

\* The [Route] section networkd gets for a route
RouteSectionWritten(destination, gateway) ==
    \E path \in DOMAIN files_to_write :
       \E i \in 1..(Len(files_to_write[path]) - 2) :
          /\ files_to_write[path][i] = <<"[Route]">>
          /\ files_to_write[path][i + 1] = <<"Destination=", destination>>
          /\ files_to_write[path][i + 2] = <<"Gateway=", gateway>>

\* C9 amended: in the Debian, Red Hat, SUSE and Gentoo dialects an all-zeros
\* route of a rendered static interface is written as the default-gateway
\* construct and no route entry with the all-zeros destination is written;
\* the networkd dialect writes it as a [Route] section like any other route,
\* with the destination <network>/0.
C9_ZeroRouteByDialect ==
    RenderDone =>
       \A route \in RenderedZeroRoutes :
          IF args.distro = "networkd"
          THEN RouteSectionWritten(route.network \o "/0", route.gateway)
          ELSE /\ DefaultGatewayWritten(args.distro, route.gateway)
               /\ ~ZeroRouteEntryWritten

\* A run that rendered a static interface with an all-zeros route and
\* another route
C9_Witness ==
    /\ RenderDone
    /\ RenderedZeroRoutes # {}
    /\ args.distro \in {"gentoo", "networkd"}
    /\ \/ WrittenEnding(<<"netmask", Route4Other.netmask, "via", Route4Other.gateway>>)
       \/ RouteSectionWritten("198.51.100.0/24", Route4Other.gateway)

\* The source the payload is to be taken from: network_data.json, then
\* network_info.json, then the network_info entry of vendor_data.json
FirstSource(d) ==
    IF d.data.exists THEN d.data.json
    ELSE IF d.info.exists THEN d.info.json
    ELSE IF d.vendor.exists /\ Has(d.vendor.json, "network_info")
    THEN d.vendor.json.network_info
    ELSE EmptyDict

\* C10: the payload is that of the first source that exists, in the order
\* network_data.json, network_info.json, vendor_data.json's network_info.
C10_FirstSourceWins ==
    pc # "start" => network_info = FirstSource(drive)

----------------------------------------------------------------------------
(* The run with --noop *)

\* The start of a run on the payloads, with the --noop and --interface
\* values given
InitRun(payloads, noops, names) ==
    /\ pc = "start"
    /\ args \in [distro : Distros, noop : noops, interface : names,
                 skip_dns : {FALSE}]
    /\ \E payload \in payloads :
          drive = [data |-> Source(TRUE, payload), info |-> NoSource,
                   vendor |-> NoSource]
    /\ fs \in InitialFs(args.distro)
    /\ fs_faults = FALSE
    /\ InsideLock
    /\ network_info = EmptyDict
    /\ interfaces = EmptyDict
    /\ sys_interfaces = EmptyDict
    /\ seen_up = {}
    /\ files_to_write = EmptyDict
    /\ oplog = <<>>
    /\ err = "none"
    /\ NoLocals

InitNoop == InitRun(Payloads, {TRUE}, {"None"})

SpecNoop == InitNoop /\ [][Next]_vars

\* The non-blank files of the write set, in ascending path order
NonBlankSorted ==
    SelectSeq(SortedPaths(files_to_write), LAMBDA p : files_to_write[p] # <<>>)

\* C11: with --noop the run changes nothing on the host, in any dialect:
\* every operation performed is a line of preview text, no file of the host
\* is created, replaced or removed, and a run that ends has printed
\* "### Write <path>" for each non-blank file, in ascending path order.
C11_NoopTouchesNothing ==
    args.noop =>
       /\ \A i \in 1..Len(oplog) : oplog[i][1] = "stdout"
       /\ \A p \in DOMAIN fs : fs[p] = OperatorContent
       /\ pc = "done" =>
             oplog = [j \in 1..Len(NonBlankSorted) |-> <<"stdout", NonBlankSorted[j]>>]

----------------------------------------------------------------------------
(* Networks of a type no dialect knows *)

UnknownType == "ipv6_dhcpv6_stateless"

Unknown(id, link) == [id |-> id, link |-> link, type |-> UnknownType]

PayloadUnknown ==
    [links |-> <<Phy("p1", MAC1), Phy("p2", MAC2U)>>,
     networks |-> <<Unknown("net0", "p1"), Dhcp("net1", "p2")>>]

InitTypes == InitRun({PayloadUnknown}, {FALSE}, {"None"})

SpecTypes == InitTypes /\ [][Next]_vars

\* The run is past the renderer
PastRender == pc \in {"finish", "done", "abort"}

\* C12: when the interface of the unknown type is matched (its device eth0
\* is discovered), the run has no fatal error, no file of the write set is
\* named after eth0, and the interface of the other network is rendered
\* for its device eth1 unless that device's file was there before the run.
C12_UnknownTypeSkipped ==
    (PastRender /\ MAC1 \in DOMAIN sys_interfaces)
    => /\ err = "none"
       /\ DevicePaths(args.distro, "eth0") \cap DOMAIN files_to_write = {}
       /\ MAC2 \in DOMAIN sys_interfaces
             => ConfigPath(args.distro, "eth1")
                   \in (DOMAIN files_to_write) \cup (DOMAIN fs)

----------------------------------------------------------------------------
(* The run restricted to one device with --interface *)

InitOne == InitRun(Payloads, {FALSE}, {"eth0", "eth1"})

SpecOne == InitOne /\ [][Next]_vars

\* The discovered maps of the unrestricted run on the same host: the
\* restricted run's map and any of the other devices
UnrestrictedMaps ==
    {[mac \in (DOMAIN sys_interfaces) \cup {DeviceMac(d) : d \in others} |->
        IF mac \in DOMAIN sys_interfaces THEN sys_interfaces[mac]
        ELSE CHOOSE d \in others : DeviceMac(d) = mac] :
     others \in SUBSET ({"eth0", "eth1"} \ {args.interface})}

\* What the unrestricted run renders from the same payload on the same host
Unrestricted(sys) ==
    Rendered(args.distro, get_config_drive_interfaces(network_info).interfaces,
             sys, [p \in (DOMAIN fs) \ Symlinks(fs) |-> fs[p]])

\* C13: when the run restricted to a device (which it discovered) has
\* rendered, then for every unrestricted run of the same payload and host
\* that succeeds, the restricted run has succeeded too, and each path named
\* after the device that the unrestricted run writes is in the restricted
\* run's write set with the same content.
C13_RestrictedRunAgrees ==
    (/\ RenderDone \/ pc = "abort"
     /\ args.interface # "None"
     /\ DeviceMac(args.interface) \in DOMAIN sys_interfaces)
    => \A sys \in UnrestrictedMaps :
          Unrestricted(sys).err = "none"
          => /\ err = "none"
             /\ \A path \in DevicePaths(args.distro, args.interface)
                               \cap DOMAIN Unrestricted(sys).files :
                   /\ path \in DOMAIN files_to_write
                   /\ files_to_write[path] = Unrestricted(sys).files[path]

----------------------------------------------------------------------------
(* get_config_drive_interfaces over payloads with a bond, its slaves in     *)
(* either order, and a vlan on the bond                                     *)

MaxBondLinks == 4

BondPool ==
    {Phy("p1", MAC1), Phy("p2", MAC2U),
     BondLink("bond0", MAC3, <<"p1", "p2">>),
     BondLink("bond0", MAC3, <<"p2", "p1">>),
     BondLink("bond0", MAC3, <<"p2">>),
     VlanLink("vlan2", "bond0", "200"),
     Put(VlanLink("vlan2", "bond0", "200"), "vlan_mac_address", MACV)}

BondNetworkPool ==
    {Dhcp("net0", id) : id \in {"bond0", "vlan2"}}
    \cup {Static4("net1", id) : id \in {"bond0", "vlan2"}}

BondPayloads ==
    {[links |-> ls, networks |-> ns] :
        ls \in DistinctSeqs(BondPool, MaxBondLinks),
        ns \in DistinctSeqs(BondNetworkPool, 2)}

\* The state in which get_config_drive_interfaces is called on a payload
InitResolveOn(payloads) ==
    /\ pc = "resolve"
    /\ args = [distro |-> "debian", noop |-> FALSE, interface |-> "None",
               skip_dns |-> FALSE]
    /\ \E payload \in payloads :
          /\ drive = [data |-> Source(TRUE, payload), info |-> NoSource,
                      vendor |-> NoSource]
          /\ network_info = payload
    /\ fs = EmptyDict
    /\ fs_faults = FALSE
    /\ InsideLock
    /\ interfaces = EmptyDict
    /\ sys_interfaces = EmptyDict
    /\ seen_up = {}
    /\ files_to_write = EmptyDict
    /\ oplog = <<>>
    /\ err = "none"
    /\ NoLocals

InitBond == InitResolveOn(BondPayloads)

SpecBond == InitBond /\ [][NextResolve]_vars

\* The MAC of a physical link of the pool, in lower case
SlaveMac(id) == IF id = "p1" THEN "fa:16:3e:00:00:01" ELSE "fa:16:3e:00:00:02"

\* The link of the payload with the id
LinkOf(net, id) == CHOOSE l \in Range(net.links) : l.id = id

\* The interfaces made from the link: the copies for its networks, or the
\* link itself when it has no network
InterfacesOf(id) ==
    {key \in DOMAIN interfaces :
        IF Has(interfaces[key], "link") THEN interfaces[key].link = id
        ELSE key = id}

\* The bond links of the payload whose slaves are all physical links of it
WholeBonds(net) == BondIds(net) \ DanglingBonds(net)

\* C14: after get_config_drive_interfaces, each bond link whose slaves are
\* all in the payload has an interface, every interface of the bond has as
\* raw_macs the slaves' lowercased MACs in bond_links order, and so has
\* every interface made for a network of a vlan link on that bond.
C14_BondRawMacs ==
    (pc # "resolve" /\ Has(network_info, "links"))
    => \A b \in WholeBonds(network_info) :
          LET slaves == LinkOf(network_info, b).bond_links
              macs == [j \in 1..Len(slaves) |-> SlaveMac(slaves[j])]
          IN  /\ err = "none"
              /\ InterfacesOf(b) # {}
              /\ \A key \in InterfacesOf(b) : interfaces[key].raw_macs = macs
              /\ \A v \in {l.id : l \in {m \in Range(network_info.links) :
                                           m.type = "vlan" /\ m.vlan_link = b}} :
                    \A key \in InterfacesOf(v) :
                       interfaces[key].raw_macs = macs

\* A payload with a bond over p1 and the upper-case p2, a network on the
\* bond and a vlan on the bond has been resolved
C14_Witness ==
    /\ pc = "probe"
    /\ Has(network_info, "links")
    /\ \E b \in WholeBonds(network_info) :
          /\ Len(LinkOf(network_info, b).bond_links) = 2
          /\ \E key \in InterfacesOf(b) : key \in {"net0", "net1"}
          /\ InterfacesOf("vlan2") # {}

----------------------------------------------------------------------------
(* Rendering a second time *)

\* The renderer of the dialect run on the records as resolution left them
FirstRender ==
    Rendered(args.distro, get_config_drive_interfaces(network_info).interfaces,
             sys_interfaces, [p \in (DOMAIN fs) \ Symlinks(fs) |-> fs[p]])

\* The renderer of the dialect run again on the records the first run used
SecondRender == Rendered(args.distro, interfaces, sys_interfaces, fs)

\* C15: when the renderer of the dialect has run, running it again on the
\* same in-memory interface records, the same device map and the same
\* config files succeeds and gives the same path-to-content map, which
\* finish_files then goes through in the same order.
C15_RenderTwiceSame ==
    RenderDone
    => /\ FirstRender.err = "none"
       /\ \A p \in DOMAIN FirstRender.files : files_to_write[p] = FirstRender.files[p]
       /\ SecondRender.err = "none"
       /\ SecondRender.files = FirstRender.files
       /\ SortedPaths(Update(files_to_write, SecondRender.files)) = files

\* The renderer has run on a payload with a bond and has changed the
\* in-memory records, and there are files to write
C15_Witness ==
    /\ RenderDone
    /\ interfaces # get_config_drive_interfaces(network_info).interfaces
    /\ \E key \in DOMAIN interfaces : Has(interfaces[key], "bond_slaves")
    /\ FirstRender.files # EmptyDict

----------------------------------------------------------------------------
(* get_sys_interfaces on a host where reading a device attribute may fail *)

\* What open(...).read() of an attribute ends with: the content, or an
\* IOError with an errno
Content(c) == [errno |-> 0, content |-> c]
IOError(e) == [errno |-> e, content |-> ""]

CarrierReads == {Content("1"), Content("0"), IOError(22), IOError(5)}
AssignReads == {Content(PERMANENT_ADDR_TYPE), Content("3"), IOError(5)}
AddressReads(iface) == {Content(DeviceMac(iface)), IOError(5)}

AttributeReads(iface) ==
    [addr_assign_type : AssignReads, carrier : CarrierReads,
     address : AddressReads(iface)]

\* What the reads of the attributes of each device end with
ReadsOf(ifaces) ==
    {reads \in [ifaces -> UNION {AttributeReads(iface) : iface \in ifaces}] :
        \A iface \in ifaces : reads[iface] \in AttributeReads(iface)}

\* oplog with the failed read added, the first time it happens
LogRead(log, iface, attribute, read) ==
    IF read.errno = 0 \/ <<"read", iface, attribute, read.errno>> \in Range(log)
    THEN log
    ELSE Append(log, <<"read", iface, attribute, read.errno>>)

\* An is_interface_live for which every IOError means the link is not up
is_interface_live_any_errno(read) ==
    IF read.errno = 0 /\ read.content = "1" THEN "True" ELSE "False"

\* is_interface_live, given what reading carrier ends with: "True", "False",
\* or "raise" when the exception leaves the function
is_interface_live(read) ==
    IF read.errno = 0
    THEN IF read.content = "1" THEN "True" ELSE "False"
    ELSE IF read.errno # 22 THEN "raise" ELSE "False"

\* interface_live: the link is live, or is brought up unless noop
interface_live(read, noop) ==
    IF is_interface_live(read) # "False" THEN is_interface_live(read)
    ELSE IF noop THEN "False" ELSE "True"

\* A probe that goes on with a device of any address assignment type
NotPermanentNever(mac_addr_type) == FALSE

\* if mac_addr_type != PERMANENT_ADDR_TYPE: continue (cmd.py 1208-1209)
NotPermanent(mac_addr_type) == mac_addr_type # PERMANENT_ADDR_TYPE

\* An interface_live that sets the link up whatever carrier read
BringsUpLive(read, noop) == ~noop

\* interface_live gets as far as subprocess.check_call(['ip', 'link', 'set',
\* 'dev', iface, 'up']): cmd.py 1123-1129
BringsUp(read, noop) == is_interface_live(read) = "False" /\ ~noop

\* for iface in interfaces: cmd.py 1190-1213, after the vlan and bridge
\* tests.  st is [if_dict, up0, permanent, log, err].
RECURSIVE probe_loop(_, _, _, _, _)
probe_loop(cands, i, reads, noop, st) ==
    IF i > Len(cands) \/ st.err # "none" THEN st
    ELSE
      LET iface == cands[i]
          r == reads[iface]
          assigned(s) == [s EXCEPT !.log = LogRead(@, iface, "addr_assign_type",
                                                   r.addr_assign_type)]
          carried(s) == [s EXCEPT !.log = LogRead(@, iface, "carrier", r.carrier)]
          up(s) == IF BringsUp(r.carrier, noop)
                   THEN [s EXCEPT !.log = Append(@, <<"ip", "link", "set", "dev",
                                                      iface, "up">>)]
                   ELSE s
          seen(s) == IF is_interface_live(r.carrier) = "True"
                     THEN [s EXCEPT !.up0 = @ \cup {iface}]
                     ELSE s
          addressed(s) ==
              IF r.address.errno # 0
              THEN [s EXCEPT !.log = LogRead(@, iface, "address", r.address),
                             !.err = "IOError"]
              ELSE [s EXCEPT !.if_dict = Put(@, iface, r.address.content)]
          raised(s) == [s EXCEPT !.err = "IOError"]
          read0(s) == IF r.addr_assign_type.content = PERMANENT_ADDR_TYPE
                      THEN [s EXCEPT !.permanent = @ \cup {iface}]
                      ELSE s
      IN  probe_loop(cands, i + 1, reads, noop,
             IF r.addr_assign_type.errno # 0 THEN raised(assigned(st))
             ELSE IF NotPermanent(r.addr_assign_type.content) THEN read0(st)
             ELSE IF interface_live(r.carrier, noop) = "raise"
             THEN raised(carried(read0(st)))
             ELSE IF interface_live(r.carrier, noop) = "False"
             THEN carried(read0(st))
             ELSE addressed(up(seen(carried(read0(st))))))

\* for iface in if_dict: cmd.py 1219-1227.  st is [ups, log, err].
RECURSIVE poll_loop(_, _, _, _)
poll_loop(pending, i, reads, st) ==
    IF i > Len(pending) \/ st.err # "none" THEN st
    ELSE
      LET iface == pending[i]
          carried(s) == [s EXCEPT !.log = LogRead(@, iface, "carrier", reads[iface])]
      IN  poll_loop(pending, i + 1, reads,
             IF is_interface_live(reads[iface]) = "raise"
             THEN [carried(st) EXCEPT !.err = "IOError"]
             ELSE IF is_interface_live(reads[iface]) = "True"
             THEN [st EXCEPT !.ups = @ \cup {iface}]
             ELSE carried(st))

\* get_sys_interfaces up to the carrier wait: cmd.py 1176-1213, with what
\* each read of a device attribute ends with chosen by the host
ProbeReads ==
    /\ pc = "probe"
    /\ \E cands \in {Candidates(args.interface, args.distro, fs)} :
       \E reads \in ReadsOf(Range(cands)) :
       \E st \in {probe_loop(cands, 1, reads, args.noop,
                             [if_dict |-> EmptyDict, up0 |-> {}, permanent |-> {},
                              log |-> oplog, err |-> "none"])} :
          /\ if_dict' = IF st.err = "none" THEN st.if_dict ELSE EmptyDict
          /\ seen_up' = st.up0
          /\ seen_permanent' = st.permanent
          /\ oplog' = st.log
          /\ err' = st.err
          /\ pc' = IF st.err = "none" THEN "poll" ELSE "abort"
    /\ if_up_list' = {}
    /\ x' = 0
    /\ UNCHANGED <<lock, at, args, drive, network_info, interfaces, sys_interfaces, fs,
                   fs_faults, files_to_write, files, k, retries>>

\* One round of the carrier wait (cmd.py 1218-1232) and the return
\* (1234-1243), with what each read of carrier ends with chosen by the host
PollReads ==
    /\ pc = "poll"
    /\ \E reads \in [(DOMAIN if_dict) \ if_up_list -> CarrierReads] :
       \E st \in {poll_loop(SelectSeq(Devices, LAMBDA f : f \in DOMAIN reads), 1,
                            reads, [ups |-> {}, log |-> oplog, err |-> "none"])} :
       \E ends \in {\/ st.err # "none"
                    \/ AllUp(if_up_list \cup st.ups, if_dict)
                    \/ x + 1 >= PollRounds} :
          /\ sys_interfaces' = IF st.err # "none" THEN sys_interfaces
                               ELSE AddSysInterfaces(sys_interfaces, if_dict, st.ups)
          /\ seen_up' = seen_up \cup st.ups
          /\ seen_permanent' = IF ends THEN {} ELSE seen_permanent
          /\ oplog' = st.log
          /\ err' = st.err
          /\ if_up_list' = IF ends THEN {} ELSE if_up_list \cup st.ups
          /\ if_dict' = IF ends THEN EmptyDict ELSE if_dict
          /\ x' = IF ends THEN 0 ELSE x + 1
          /\ pc' = IF st.err # "none" THEN "abort"
                   ELSE IF ends THEN "render" ELSE "poll"
    /\ UNCHANGED <<lock, at, args, drive, network_info, interfaces, fs, fs_faults,
                   files_to_write, files, k, retries>>

InitProbe == InitRun({PayloadDhcp}, {FALSE, TRUE}, {"None"})

NextProbe ==
    \/ GetNetworkInfo
    \/ Resolve
    \/ ProbeReads
    \/ PollReads
    \/ Render
    \/ FinishFile

SpecProbe == InitProbe /\ [][NextProbe]_vars

\* The entries a step adds to oplog
NewOps == SubSeq(oplog', Len(oplog) + 1, Len(oplog'))

\* A failed read other than carrier failing with errno 22
FatalRead(op) == op[1] = "read" /\ (op[3] # "carrier" \/ op[4] # 22)

NoCarrierRead(op) == op[1] = "read" /\ op[3] = "carrier" /\ op[4] = 22

\* What a step of get_sys_interfaces does with the reads that fail
ProbeStepSurvivesOnlyNoCarrier ==
    pc \in {"probe", "poll"}
    => /\ pc' = "abort" <=> \E i \in 1..Len(NewOps) : FatalRead(NewOps[i])
       /\ \A i \in 1..Len(NewOps) : FatalRead(NewOps[i]) => i = Len(NewOps)
       /\ pc' = "abort"
          => /\ err' = "IOError"
             /\ sys_interfaces' = sys_interfaces
             /\ files_to_write' = files_to_write
             /\ fs' = fs
       /\ \A i \in 1..Len(NewOps) :
             NoCarrierRead(NewOps[i])
             => /\ NewOps[i][2] \notin (seen_up' \ seen_up)
                /\ (pc = "probe" /\ ~args.noop)
                   => /\ i < Len(NewOps)
                      /\ NewOps[i + 1] = <<"ip", "link", "set", "dev",
                                           NewOps[i][2], "up">>
                /\ (pc = "probe" /\ args.noop /\ pc' # "abort")
                   => NewOps[i][2] \notin DOMAIN if_dict'
                /\ (pc = "poll" /\ pc' # "abort")
                   => DeviceMac(NewOps[i][2]) \notin DOMAIN sys_interfaces'

\* C16: in a step of get_sys_interfaces, the exception leaves the function
\* and the run aborts with nothing returned and no file touched exactly when
\* a read of a device attribute fails otherwise than carrier with errno 22,
\* and that read is the last thing done; a carrier read failing with errno
\* 22 lets the step go on with the device taken as not up: it is brought up
\* in the first loop unless noop, and is not added to sys_interfaces in
\* that round of the wait.
C16_OnlyNoCarrierSurvived == [][ProbeStepSurvivesOnlyNoCarrier]_vars

\* The carrier read of eth0 failed with errno 22, the probe went on to
\* eth1, whose carrier read failed with errno 5, and the run aborted
C16_Witness ==
    /\ pc = "abort"
    /\ err = "IOError"
    /\ <<"read", "eth0", "carrier", 22>> \in Range(oplog)
    /\ oplog[Len(oplog)] = <<"read", "eth1", "carrier", 5>>

----------------------------------------------------------------------------
(* The run without a payload, or with one that lacks networks or links *)

DegenerateDrives ==
    {[data |-> NoSource, info |-> NoSource, vendor |-> NoSource]}
    \cup {[data |-> Source(TRUE, payload), info |-> NoSource, vendor |-> NoSource] :
            payload \in {EmptyDict,
                         [links |-> <<Phy("p1", MAC1), Phy("p2", MAC2U)>>],
                         [networks |-> <<Static4("net0", "p1")>>],
                         [services |-> <<>>]}}

InitDegenerate ==
    /\ pc = "start"
    /\ args \in [distro : Distros, noop : {FALSE}, interface : {"None"},
                 skip_dns : {FALSE}]
    /\ drive \in DegenerateDrives
    /\ fs \in InitialFs(args.distro)
    /\ fs_faults = FALSE
    /\ InsideLock
    /\ network_info = EmptyDict
    /\ interfaces = EmptyDict
    /\ sys_interfaces = EmptyDict
    /\ seen_up = {}
    /\ files_to_write = EmptyDict
    /\ oplog = <<>>
    /\ err = "none"
    /\ NoLocals

SpecDegenerate == InitDegenerate /\ [][Next]_vars

\* The renderer has returned and finish_files has opened no file yet
Rendering ==
    \/ RenderDone
    \/ pc = "done" /\ \A i \in 1..Len(oplog) : oplog[i][1] # "open"

\* The non-blank files of the write set
NonBlank == {p \in DOMAIN files_to_write : files_to_write[p] # <<>>}

\* Those of them that configure a device: not Debian's
\* /etc/network/interfaces, which holds the loopback stanza and the source
\* line
DeviceFiles == NonBlank \ {eni_path}

\* The discovered devices that have no config file of the dialect on the host
Unconfigured ==
    {sys_interfaces[mac] : mac \in DOMAIN sys_interfaces}
    \ {iface \in Range(Devices) : ConfigPath(args.distro, iface) \in DOMAIN fs}

\* C17: when the payload is absent or lacks networks or links, resolution
\* gives the empty map and does not fail, and the render is the DHCP
\* entries of the discovered devices that have no config file of the
\* dialect on the host: each of them has its DHCP entry, every device file
\* of the write set is a file of one of them, and no file of the write set
\* has a static or manual stanza.
C17_DegenerateIsFallbackOnly ==
    (pc \notin {"start", "resolve"}
       /\ (~Has(network_info, "networks") \/ ~Has(network_info, "links")))
    => /\ err = "none"
       /\ interfaces = EmptyDict
       /\ Rendering
          => /\ \A iface \in Unconfigured :
                   /\ ConfigPath(args.distro, iface) \in NonBlank
                   /\ IsDhcpEntry(files_to_write[ConfigPath(args.distro, iface)])
             /\ DeviceFiles \subseteq
                   UNION {DevicePaths(args.distro, iface) : iface \in Unconfigured}
             /\ \A p \in NonBlank :
                   ~Mentions(files_to_write[p], {"static", "manual"})

----------------------------------------------------------------------------
(* Several networks on one link *)

ConfigKeys == {"type", "ip_address", "netmask", "routes"}

\* The interface has the key as the network has it, or neither has it
SameField(interface, network, key) ==
    /\ Has(interface, key) <=> Has(network, key)
    /\ Has(network, key) => interface[key] = network[key]

\* The MAC address resolution gives a link of the payload
LinkMac(net, link) ==
    IF link.type = "vlan"
    THEN lower(Get(link, "vlan_mac_address",
                   LinkOf(net, link.vlan_link).ethernet_mac_address))
    ELSE lower(link.ethernet_mac_address)

\* C18: after get_config_drive_interfaces on a payload whose vlans and
\* bonds name links of the payload, every network on a link of the payload
\* has an interface under its own id, with the link's MAC address, with
\* the link's raw_macs if the link has them, and with the type,
\* ip_address, netmask and routes of that network and of no other.
C18_OneInterfacePerNetwork ==
    (/\ pc # "resolve"
     /\ Has(network_info, "links") /\ Has(network_info, "networks")
     /\ DanglingVlans(network_info) = {} /\ DanglingBonds(network_info) = {})
    => /\ err = "none"
       /\ \A j \in 1..Len(network_info.networks) :
             LET network == network_info.networks[j]
             IN  network.link \in {l.id : l \in Range(network_info.links)}
                 => /\ network.id \in DOMAIN interfaces
                    /\ interfaces[network.id].mac_address
                          = LinkMac(network_info, LinkOf(network_info, network.link))
                    /\ \A h \in 1..Len(network_info.networks) :
                          network_info.networks[h].link = network.link
                          => /\ Has(interfaces[network.id], "raw_macs")
                                <=> Has(interfaces[network_info.networks[h].id], "raw_macs")
                             /\ Has(interfaces[network.id], "raw_macs")
                                => interfaces[network.id].raw_macs
                                     = interfaces[network_info.networks[h].id].raw_macs
                    /\ \A key \in ConfigKeys :
                          SameField(interfaces[network.id], network, key)

----------------------------------------------------------------------------
(* When the files are written *)

\* The place of a path in the code-point order of the paths
PathIndex(path) == CHOOSE i \in 1..Len(PathOrder) : PathOrder[i] = path

\* The opens, writes and unlinks of config files, in the order they happened
FileOps == SelectSeq(oplog, LAMBDA op : op[1] \in {"open", "write", "unlink"})

WriteOps == SelectSeq(oplog, LAMBDA op : op[1] = "write")

\* C19: no config file is opened, written or unlinked before resolution,
\* discovery and the renderer have all returned without an exception, and
\* the files are written in ascending path order: every non-blank file of
\* the write set, once, by the end of the run.
C19_WritesAfterRenderInOrder ==
    /\ FileOps # <<>>
       => /\ pc \in {"finish", "done"}
          /\ err = "none"
    /\ \A i \in 1..Len(WriteOps) :
          /\ WriteOps[i][2] \in DOMAIN files_to_write
          /\ \A j \in 1..(i - 1) :
                PathIndex(WriteOps[j][2]) < PathIndex(WriteOps[i][2])
    /\ (pc = "done" /\ err = "none")
       => {WriteOps[i][2] : i \in 1..Len(WriteOps)}
             = {p \in DOMAIN files_to_write : files_to_write[p] # <<>>}

\* The run has ended with two files or more written
C19_Witness ==
    /\ pc = "done"
    /\ Len(WriteOps) >= 2
    /\ DOMAIN sys_interfaces # {}

----------------------------------------------------------------------------
(* main: the invocations of one host and /tmp/glean.lock *)

MaxInvocations == 2

Invocations == 1..MaxInvocations

\* A lock that is taken whether or not it is held
CanLockAlways(holder) == TRUE

\* systemlock.Lock: a process-wide mutual-exclusion lock on a lock file; it
\* is taken when no invocation holds it
CanLock(holder) == holder = {}

\* with systemlock.Lock('/tmp/glean.lock'): the invocation takes the lock and
\* enters the block with an in-memory model of its own (cmd.py 1475)
Enter(i) ==
    /\ at[i] = "main"
    /\ CanLock(lock)
    /\ lock' = {i}
    /\ at' = [at EXCEPT ![i] = "with"]
    /\ pc' = "start"
    /\ network_info' = EmptyDict
    /\ interfaces' = EmptyDict
    /\ sys_interfaces' = EmptyDict
    /\ seen_up' = {}
    /\ seen_permanent' = {}
    /\ files_to_write' = EmptyDict
    /\ err' = "none"
    /\ if_dict' = EmptyDict
    /\ if_up_list' = {}
    /\ x' = 0
    /\ files' = <<>>
    /\ k' = 0
    /\ retries' = 0
    /\ UNCHANGED <<args, drive, fs, fs_faults, oplog>>

\* The end of the with block: write_network_info_from_config_drive has
\* returned or raised, and the lock is released (cmd.py 1481-1482)
Exit(i) ==
    /\ at[i] = "with"
    /\ pc \in {"done", "abort"}
    /\ lock' = {}
    /\ at' = [at EXCEPT ![i] = "exit"]
    /\ pc' = "main"
    /\ UNCHANGED <<args, drive, network_info, interfaces, if_dict, if_up_list, x,
                   seen_up, seen_permanent, sys_interfaces, fs, fs_faults,
                   files_to_write, files, k, retries, oplog, err>>

InitLock ==
    /\ pc = "main"
    /\ lock = {}
    /\ at = [i \in Invocations |-> "main"]
    /\ args \in [distro : {"debian"}, noop : {FALSE},
                 interface : {"None"}, skip_dns : {FALSE}]
    /\ drive = [data |-> Source(TRUE, PayloadDhcp), info |-> NoSource,
                vendor |-> NoSource]
    /\ fs = EmptyDict
    /\ fs_faults = FALSE
    /\ RestOfInit

NextLock ==
    \/ \E i \in Invocations : Enter(i)
    \/ GetNetworkInfo
    \/ Resolve
    \/ ProbeCandidates
    \/ PollRound
    \/ Render
    \/ FinishFile
    \/ \E i \in Invocations : Exit(i)

SpecLock == InitLock /\ [][NextLock]_vars

\* The invocations inside the with block
Inside == {i \in Invocations : at[i] = "with"}

\* What one invocation reads and writes between the config-drive read and
\* the last file write
RunState == <<pc, network_info, interfaces, if_dict, if_up_list, x, sys_interfaces,
              fs, files_to_write, files, k, retries, oplog, err>>

LockedStep ==
    /\ Cardinality(Inside') <= 1
    /\ (RunState' # RunState /\ pc' # "main")
       => /\ lock' # {}
          /\ Inside' = lock'
    /\ (lock # {} /\ lock' # lock)
       => /\ lock' = {}
          /\ pc \in {"done", "abort"}
          /\ pc = "done" => \A p \in DOMAIN files_to_write :
                               files_to_write[p] # <<>> => fs[p] = files_to_write[p]

\* C20: every step between the config-drive read and the last file write is
\* taken by the one invocation that holds the lock: the lock is taken
\* before the first read, it changes hands only by being released after
\* finish_files has written every file or an exception has ended the run,
\* and no two invocations are inside the block at once.
C20_LockSpansTheRun == [][LockedStep]_vars

\* A second invocation is at work on the files the first one wrote, after
\* the first one released the lock
C20_Witness ==
    /\ \E i \in Invocations : at[i] = "exit"
    /\ \E i \in Invocations : at[i] = "with" /\ lock = {i}
    /\ pc = "finish"
    /\ \E j \in 1..Len(oplog) : oplog[j][1] = "write"

----------------------------------------------------------------------------
(* The run with and without --skip-dns *)

InitDns ==
    /\ pc = "start"
    /\ args \in [distro : Distros, noop : {FALSE}, interface : {"None"},
                 skip_dns : BOOLEAN]
    /\ \E payload \in {PayloadStatic4, PayloadDhcp} :
          drive = [data |-> Source(TRUE, payload), info |-> NoSource,
                   vendor |-> NoSource]
    /\ fs \in InitialFs(args.distro)
    /\ fs_faults = FALSE
    /\ InsideLock
    /\ RestOfInit

SpecDns == InitDns /\ [][Next]_vars

\* The write set of the same run without --skip-dns
WithDns ==
    Update(write_dns_info(get_dns_from_config_drive(network_info)),
           FirstRender.files)

\* The paths the run has opened or written so far
Touched ==
    {oplog[i][2] : i \in {j \in 1..Len(oplog) :
                            oplog[j][1] \in {"open", "write", "unlink"}}}

\* C21: with --skip-dns the run never opens or writes /etc/resolv.conf, its
\* write set when the renderer returns is the write set of the same run
\* without --skip-dns less /etc/resolv.conf, and at the end it has written
\* the non-blank files of that set with their contents.
C21_SkipDnsOnlyDropsResolvConf ==
    args.skip_dns
    => /\ resolv_conf \notin Touched
       /\ resolv_conf \notin DOMAIN files_to_write
       /\ Rendering
          => /\ DOMAIN files_to_write = (DOMAIN WithDns) \ {resolv_conf}
             /\ \A p \in DOMAIN files_to_write : files_to_write[p] = WithDns[p]
       /\ pc = "done"
          => /\ Touched = {p \in DOMAIN files_to_write : files_to_write[p] # <<>>}
             /\ \A p \in Touched : fs[p] = files_to_write[p]

\* A run with --skip-dns on a payload with a DNS service has ended and has
\* written interface files
C21_Witness ==
    /\ args.skip_dns
    /\ pc = "done"
    /\ get_dns_from_config_drive(network_info) # <<>>
    /\ Touched # {}

----------------------------------------------------------------------------
(* The Debian file of one network on one physical link *)

\* The payload is one physical link with one network of the type
OneNetworkOfType(net, type) ==
    /\ Has(net, "links") /\ Has(net, "networks")
    /\ Len(net.links) = 1 /\ Len(net.networks) = 1
    /\ net.links[1].type = "phy"
    /\ net.networks[1].link = net.links[1].id
    /\ net.networks[1].type = type

\* The lines of a file that start with the word
LinesOf(content, word) ==
    SelectSeq(content, LAMBDA line : Len(line) > 0 /\ line[1] = word)

\* The gateways of the default routes of a network
DefaultGateways(network) ==
    SelectSeq(network.routes, LAMBDA route : IsDefaultRoute(route))

\* The link's MAC address is the MAC address of a discovered device whose
\* file was not there before the run
DiscoveredWithoutFile ==
    /\ RenderDone
    /\ args.distro = "debian"
    /\ lower(network_info.links[1].ethernet_mac_address) \in DOMAIN sys_interfaces
    /\ ~exists_debian_interface(
          sys_interfaces[lower(network_info.links[1].ethernet_mac_address)], fs)

\* C22: in the Debian dialect, one network on one physical link whose MAC
\* address is that of the discovered device D, with no file for D on the
\* host, gives a file for D that starts with "auto D" and holds one iface
\* line: for ipv4 "iface D inet static" with one address line, one netmask
\* line and one gateway line, which carry the network's address, its
\* netmask and the gateway of its default route; for ipv4_dhcp
\* "iface D inet dhcp" and no address, netmask or gateway line.  The
\* static file holds no dhcp line and neither file holds a second stanza.
C22_DebianStanzaFollowsType ==
    \A type \in {"ipv4", "ipv4_dhcp"} :
       (OneNetworkOfType(network_info, type) /\ DiscoveredWithoutFile)
       => LET D == sys_interfaces[lower(network_info.links[1].ethernet_mac_address)]
              network == network_info.networks[1]
          IN  /\ err = "none"
              /\ DebianPath(D) \in DOMAIN files_to_write
              /\ \E file \in {files_to_write[DebianPath(D)]} :
                    /\ file[1] = <<"auto", D>>
                    /\ Len(LinesOf(file, "auto")) = 1
                    /\ IF type = "ipv4"
                       THEN /\ LinesOf(file, "iface") = << <<"iface", D, "inet", "static">> >>
                            /\ LinesOf(file, "address")
                                  = << <<"address", network.ip_address>> >>
                            /\ LinesOf(file, "netmask")
                                  = << <<"netmask", network.netmask>> >>
                            /\ LinesOf(file, "gateway")
                                  = << <<"gateway", DefaultGateways(network)[1].gateway>> >>
                       ELSE /\ file = << <<"auto", D>>, <<"iface", D, "inet", "dhcp">> >>
                            /\ \A word \in {"address", "netmask", "gateway"} :
                                  LinesOf(file, word) = <<>>

C22_Witness ==
    /\ OneNetworkOfType(network_info, "ipv4")
    /\ DiscoveredWithoutFile
    /\ Len(DefaultGateways(network_info.networks[1])) = 1
    /\ DebianPath("eth0") \in DOMAIN files_to_write

----------------------------------------------------------------------------
(* Which devices get_sys_interfaces brings up, polls and returns *)

\* The devices a step issues "ip link set dev <iface> up" for
BroughtUp == {NewOps[i][5] : i \in {j \in 1..Len(NewOps) : NewOps[j][1] = "ip"}}

\* The devices a step reads carrier of for the first time with '1'
NewlyUp == seen_up' \ seen_up

\* The devices of the entries a step adds to the result map or changes
Added ==
    {sys_interfaces'[mac] :
        mac \in {m \in DOMAIN sys_interfaces' :
                   m \notin DOMAIN sys_interfaces
                   \/ sys_interfaces'[m] # sys_interfaces[m]}}

\* What a step of get_sys_interfaces does with a device, by the address
\* assignment type it read
StepKeepsToPermanent ==
    /\ pc = "probe"
       => /\ sys_interfaces' = sys_interfaces
          /\ BroughtUp \subseteq seen_permanent'
          /\ NewlyUp \subseteq seen_permanent'
          /\ DOMAIN if_dict' \subseteq seen_permanent'
    /\ pc = "poll"
       => /\ BroughtUp = {}
          /\ NewlyUp \subseteq DOMAIN if_dict
          /\ DOMAIN if_dict \subseteq seen_permanent
          /\ Added \subseteq seen_permanent \cap ((DOMAIN if_dict) \ if_up_list)
          /\ \A mac \in DOMAIN sys_interfaces' : sys_interfaces'[mac] \in seen_up'
    /\ pc \notin {"probe", "poll", "main"}
       => sys_interfaces' = sys_interfaces

\* C23: in every step of get_sys_interfaces, a device is brought up, has
\* its carrier read, is kept for polling or is added to the result map only
\* if its addr_assign_type read '0'; an entry is added to the result map
\* only in a polling round, for a device that is polled in it, and every
\* entry of the result map is of a device some carrier read of which
\* returned '1'.  After get_sys_interfaces the result map is not changed.
C23_OnlyPermanentAndUp == [][StepKeepsToPermanent]_vars

\* eth1 read as permanent, was brought up, was seen up in a round of the
\* wait and is the one entry of the result map
C23_Witness ==
    /\ pc = "render"
    /\ <<"ip", "link", "set", "dev", "eth1", "up">> \in Range(oplog)
    /\ DOMAIN sys_interfaces = {MAC2}
    /\ seen_up = {"eth1"}

----------------------------------------------------------------------------
(* The carrier wait of get_sys_interfaces *)

InitWait == InitRun({PayloadDhcp}, {FALSE, TRUE}, {"None"})

\* A round of the wait that has begun is run to its end
SpecWait == InitWait /\ [][Next]_vars /\ WF_vars(PollRound)

\* The devices of the result map
Returned == {sys_interfaces[mac] : mac \in DOMAIN sys_interfaces}

\* One round of the wait: x counts the rounds that ended in time.sleep
WaitStep ==
    pc = "poll"
    => /\ x < PollRounds
       /\ pc' \in {"poll", "render"}
       /\ pc' = "poll"
          => /\ Returned' # DOMAIN if_dict
             /\ x' = x + 1
             /\ x' < PollRounds
       /\ Returned' = DOMAIN if_dict => pc' = "render"
       /\ pc' = "render" => (Returned' = DOMAIN if_dict \/ x = PollRounds - 1)
       /\ DOMAIN if_dict = {} => (x = 0 /\ pc' = "render")

\* C24: the carrier wait ends: each round either leaves the wait or is
\* followed by a sleep and counted, no more than 90 rounds are counted
\* whatever the candidates, the wait is left at the end of the first round
\* after which every candidate has been seen up and otherwise only after
\* the last round, and with no candidate it is left in its first round
\* without a sleep.
C24_WaitTerminates ==
    /\ [][WaitStep]_vars
    /\ (pc = "poll") ~> (pc = "render")

\* The last round of a wait for a device that never came up
C24_Witness ==
    /\ pc = "poll"
    /\ x = PollRounds - 1
    /\ DOMAIN if_dict = {"eth0", "eth1"}
    /\ if_up_list = {"eth1"}

----------------------------------------------------------------------------
(* The "ip link set dev <iface> up" calls of one probe *)

\* The places of oplog where the link of the device is set up
LinkUps(log, iface) ==
    {i \in 1..Len(log) : log[i] = <<"ip", "link", "set", "dev", iface, "up">>}

\* What a step does about setting links up
StepSetsLinkUpOnce ==
    /\ \A iface \in Range(Devices) : Cardinality(LinkUps(oplog', iface)) <= 1
    /\ pc = "probe" => BroughtUp \subseteq seen_permanent' \ seen_up'
    /\ pc # "probe" => BroughtUp = {}

\* C25: in one probe "ip link set dev <iface> up" is run at most once for a
\* device, only in the first loop and only for a device whose
\* addr_assign_type read '0' and whose carrier read of that loop did not
\* return '1'; no round of the wait and no later step runs it.
C25_LinkUpOncePerDevice == [][StepSetsLinkUpOnce]_vars

\* Both links were set up in the first loop and the wait has gone through
\* several rounds in which eth0 did not come up
C25_Witness ==
    /\ pc = "poll"
    /\ x > 1
    /\ LinkUps(oplog, "eth0") # {} /\ LinkUps(oplog, "eth1") # {}
    /\ if_up_list = {"eth1"}

----------------------------------------------------------------------------
(* The probe of a device named with --interface *)

\* if args.interface != 'lo' and not args.skip:
\*     write_network_info_from_config_drive(args)           (cmd.py 1480-1481)
CallWrite ==
    /\ pc = "with"
    /\ pc' = IF args.interface # "lo" THEN "start" ELSE "done"
    /\ UNCHANGED <<lock, at, args, drive, network_info, interfaces, if_dict,
                   if_up_list, x, seen_up, seen_permanent, sys_interfaces, fs,
                   fs_faults, files_to_write, files, k, retries, oplog, err>>

\* The names udev hands to --interface, and no name
InterfaceArgs == {"None", "eth0", "lo", "sit0", "bond0"}

InitNamed ==
    /\ pc = "with"
    /\ args \in [distro : Distros, noop : BOOLEAN, interface : InterfaceArgs,
                 skip_dns : {FALSE}]
    /\ drive = [data |-> Source(TRUE, PayloadDhcp), info |-> NoSource,
                vendor |-> NoSource]
    /\ fs \in InitialFs(args.distro)
    /\ fs_faults = FALSE
    /\ InsideLock
    /\ RestOfInit

\* main up to the return of get_sys_interfaces
NextNamed ==
    \/ CallWrite
    \/ GetNetworkInfo
    \/ Resolve
    \/ ProbeCandidates
    \/ PollRound

SpecNamed == InitNamed /\ [][NextNamed]_vars

\* C26: the result map of get_sys_interfaces holds no device whose name
\* starts with a prefix of ignored_interfaces, whether the devices are
\* listed from /sys/class/net or one is named with --interface.
C26_IgnoredNeverReturned ==
    \A mac \in DOMAIN sys_interfaces : ~StartsWithIgnored(sys_interfaces[mac])

----------------------------------------------------------------------------
(* The device names of vlans and bonds in the Debian and sysconfig dialects *)

\* A vlan on a bond with one slave
PayloadVlanBondOne ==
    [links |-> <<Phy("p1", MAC1), BondLink("bond0", MAC1, <<"p1">>),
                 VlanLink("vlan1", "bond0", "100")>>,
     networks |-> <<Dhcp("net0", "vlan1")>>]

VlanPayloads == {PayloadVlan, PayloadVlanBond, PayloadVlanBondOne, PayloadBond}

InitVlanNames == InitRun(VlanPayloads, {FALSE}, {"None"})

SpecVlanNames == InitVlanNames /\ [][Next]_vars

\* The name the parent link of a vlan interface gives it: the bond's link
\* id, or the kernel name of the physical link
ParentName(interface) ==
    LET parent == LinkOf(network_info, interface.vlan_link)
    IN  IF parent.type = "bond" THEN parent.id
        ELSE sys_interfaces[lower(parent.ethernet_mac_address)]

\* The device has its file in the write set, or had it before the run
FileFor(name) ==
    ConfigPath(args.distro, name) \in (DOMAIN files_to_write) \cup (DOMAIN fs)

\* C27: in the Debian, Red Hat and SUSE dialects the file of a matched vlan
\* interface is the file of the device {kernel name of the parent}.{vlan_id}
\* when the parent link is physical and of {bond link id}.{vlan_id} when it
\* is a bond, whatever the number of slaves of the bond; the file of a
\* matched bond interface is the file of the device named by the bond's
\* link id.
C27_VlanAndBondNames ==
    (RenderDone /\ args.distro \in {"debian", "redhat", "opensuse"})
    => \A key \in DOMAIN interfaces :
          LET interface == interfaces[key]
          IN  Matched(interface, sys_interfaces)
              => IF Has(interface, "vlan_id")
                 THEN FileFor(ParentName(interface) \o "." \o interface.vlan_id)
                 ELSE Has(interface, "bond_mode")
                      => FileFor(Get(interface, "link", key))

----------------------------------------------------------------------------
(* Several DHCP and SLAAC networks on one device in the networkd dialect *)

DhcpKinds == {"ipv4_dhcp", "ipv6_dhcpv6_stateful", "ipv6_slaac"}

\* Two or three networks of these types, in every order
KindSeqs ==
    {<<a, b>> : a \in DhcpKinds, b \in DhcpKinds}
    \cup {<<a, b, c>> : a \in DhcpKinds, b \in DhcpKinds, c \in DhcpKinds}

KindIds == <<"net0", "net1", "net2">>

\* One physical link with a network of each type of the sequence
PayloadKinds(kinds) ==
    [links |-> <<Phy("p1", MAC1)>>,
     networks |-> [j \in 1..Len(kinds) |->
                     [id |-> KindIds[j], link |-> "p1", type |-> kinds[j]]]]

InitKinds ==
    /\ pc = "start"
    /\ args = [distro |-> "networkd", noop |-> FALSE, interface |-> "None",
               skip_dns |-> FALSE]
    /\ \E kinds \in KindSeqs :
          drive = [data |-> Source(TRUE, PayloadKinds(kinds)), info |-> NoSource,
                   vendor |-> NoSource]
    /\ fs = EmptyDict
    /\ fs_faults = FALSE
    /\ InsideLock
    /\ RestOfInit

SpecKinds == InitKinds /\ [][Next]_vars

\* The types the networks of the payload ask for
Asked == {network_info.networks[j].type : j \in 1..Len(network_info.networks)}

\* C28: in the networkd dialect, when the networks on the device eth0 ask
\* for more than one of ipv4_dhcp, ipv6_dhcpv6_stateful and ipv6_slaac, the
\* file eth0.network holds no more than one DHCP= line, and when both
\* ipv4_dhcp and ipv6_dhcpv6_stateful are asked for that line is DHCP=yes.
C28_SingleDhcpSetting ==
    (/\ RenderDone
     /\ Cardinality(Asked) > 1
     /\ NetworkPath("eth0") \in DOMAIN files_to_write)
    => /\ Len(LinesOf(files_to_write[NetworkPath("eth0")], "DHCP=")) <= 1
       /\ {"ipv4_dhcp", "ipv6_dhcpv6_stateful"} \subseteq Asked
          => LinesOf(files_to_write[NetworkPath("eth0")], "DHCP=")
                = << <<"DHCP=", "yes">> >>

\* C29: in the networkd dialect no file of the write set holds both
\* IPv6AcceptRA=yes and IPv6AcceptRA=no.
C29_AcceptRaNotBoth ==
    \A path \in DOMAIN files_to_write :
       ~ /\ <<"IPv6AcceptRA=", "yes">> \in Range(files_to_write[path])
         /\ <<"IPv6AcceptRA=", "no">> \in Range(files_to_write[path])

----------------------------------------------------------------------------
(* The vlan marker of a file the run has written *)

\* The dialects is_interface_vlan knows
MarkerDialects == {"debian", "redhat", "opensuse", "gentoo"}

\* The device the vlan interface is rendered for: the Gentoo renderer names
\* it in _setup_gentoo_network_init (cmd.py 680-687), the others as
\* InterfaceName
VlanParent(interface) ==
    IF Len(RawMacs(interface)) = 1 THEN sys_interfaces[RawMacs(interface)[1]]
    ELSE interface.vlan_link

VlanDevice(key) ==
    IF args.distro = "gentoo"
    THEN VlanParent(interfaces[key]) \o "." \o interfaces[key].vlan_id
    ELSE InterfaceName(key, interfaces[key], sys_interfaces)

\* The file that holds the configuration of the vlan interface
VlanFile(key) ==
    IF args.distro = "gentoo" THEN GentooPath(VlanParent(interfaces[key]))
    ELSE ConfigPath(args.distro, VlanDevice(key))

\* The vlan interfaces whose file this run has written
PersistedVlans ==
    {key \in DOMAIN interfaces :
        /\ Has(interfaces[key], "vlan_id")
        /\ Matched(interfaces[key], sys_interfaces)
        /\ <<"write", VlanFile(key)>> \in Range(oplog)}

\* C30: in the Debian, Red Hat, SUSE and Gentoo dialects, when a run has
\* ended and has written the file of a vlan interface, is_interface_vlan is
\* true of the vlan's device on the files the run leaves behind.
C30_PersistedVlanIsRecognised ==
    (pc = "done" /\ args.distro \in MarkerDialects)
    => \A key \in PersistedVlans :
          is_interface_vlan(VlanDevice(key), args.distro, fs)

====
